---------------------------- MODULE Spec2Model ----------------------------
(***************************************************************************)
(* A model of AioP13 (src/src/AioP13.cpp, src/src/AioP13.h): the Plan13    *)
(* time model (P13DateTime), the satellite (P13Satellite), the observer    *)
(* (P13Observer) and the Sun (P13Sun).                                     *)
(*                                                                         *)
(* Numbers.  The code computes in `double' and casts to `long'/`int'.      *)
(* Here a double is a fixed-point integer: the fraction of a day c_dTN is  *)
(* a whole number of ticks (TicksPerDay to the day, one tick a second),    *)
(* and a cast (long)x / (int)x truncates toward zero, as in C.             *)
(***************************************************************************)
EXTENDS Integers, Sequences, FiniteSets, TLC

VARIABLES
    dt,      \* the P13DateTime instance: [c_lDN, c_dTN]
    call,    \* the last call made: its name, its arguments, the object before it
    out,     \* what the last call returned through its reference parameters
    input,   \* the arguments a run of a pure function was started with
    ncalls,  \* the number of calls made so far
    sat,     \* the P13Satellite instance: its fields
    hist,    \* history of the satellite: predict calls made, what elaz last used
    kep,     \* the Newton loop of predict(): its locals and its position
    sun      \* the P13Sun instance: [c_vecSUN, c_vecH]

vars == <<dt, call, out, input, ncalls, sat, hist, kep, sun>>

---------------------------------------------------------------------------
(* C arithmetic *)

\* the element of a one-element set: Only({ e : x \in {v} }) is e with x
\* standing for the value of v, which is computed once
Only(S) == CHOOSE r \in S : TRUE

\* (long)(n/d) for d > 0: the cast truncates toward zero
Trunc(n, d) == Only({ IF x >= 0 THEN x \div d ELSE -((-x) \div d) : x \in {n} })

\* fmod(a, b) for b > 0: the remainder has the sign of a
Fmod(a, b) == Only({ x - b * Trunc(x, b) : x \in {a} })

\* floor(n/d) and the matching remainder, for d > 0 (used by the claims only)
Floor(n, d) == n \div d

---------------------------------------------------------------------------
(* Doubles.  A double other than a time of day is a fixed-point number: the *)
(* integer round(x * SC).  Every operation rounds its exact result to the   *)
(* nearest representable number, as IEEE arithmetic does; NaN stands for a  *)
(* result that is not a finite number (a division by zero, asin or sqrt     *)
(* outside its domain), and every operation on NaN gives NaN.               *)

\* the resolution: numbers are multiples of 1/SC
SC == 1000

NaN == -(2^30)

IsNaN(x) == x = NaN

Abs(x) == Only({ IF v < 0 THEN -v ELSE v : v \in {x} })

\* n/d rounded to the nearest integer (halves away from zero), d # 0
RDiv(n, d) ==
    Only({ IF nn >= 0 THEN (2 * nn + dd) \div (2 * dd)
           ELSE -((2 * (-nn) + dd) \div (2 * dd)) :
           nn \in {IF d < 0 THEN -n ELSE n}, dd \in {Abs(d)} })

FAdd(a, b) == Only({ IF IsNaN(x) \/ IsNaN(y) THEN NaN ELSE x + y : x \in {a}, y \in {b} })
FSub(a, b) == Only({ IF IsNaN(x) \/ IsNaN(y) THEN NaN ELSE x - y : x \in {a}, y \in {b} })
FNeg(a)    == Only({ IF IsNaN(x) THEN NaN ELSE -x : x \in {a} })

\* a * b where one factor is scaled by SC: round(a * b / SC), the product
\* taken in two parts (of the larger factor) so that it stays within 32 bits
FMul(a, b) ==
    Only({ IF IsNaN(x) \/ IsNaN(y) THEN NaN
           ELSE (IF (x >= 0) = (y >= 0) THEN 1 ELSE -1)
                  * Only({ (hi \div SC) * lo + RDiv((hi % SC) * lo, SC) :
                           hi \in {IF Abs(x) >= Abs(y) THEN Abs(x) ELSE Abs(y)},
                           lo \in {IF Abs(x) >= Abs(y) THEN Abs(y) ELSE Abs(x)} }) :
           x \in {a}, y \in {b} })

\* a / b, the quotient scaled by SC
FDiv(a, b) ==
    Only({ IF IsNaN(x) \/ IsNaN(y) \/ y = 0 THEN NaN ELSE RDiv(x * SC, y) :
           x \in {a}, y \in {b} })

\* (long)x for a double x scaled by SC
FTrunc(a) == Trunc(a, SC)

\* PI (Arduino.h), scaled by SC
PI_e4  == 31416
PI     == RDiv(PI_e4 * SC, 10000)
TwoPi  == RDiv(2 * PI_e4 * SC, 10000)
HalfPi == RDiv(PI_e4 * SC, 20000)

\* radians(deg) and degrees(rad) (Arduino.h): deg * PI / 180, rad * 180 / PI
radians(d) == Only({ IF IsNaN(x) THEN NaN ELSE RDiv(x * PI, 180 * SC) : x \in {d} })
degrees(r) == Only({ IF IsNaN(x) THEN NaN ELSE RDiv(x * 180 * SC, PI) : x \in {r} })

\* the largest r in lo..hi with r^k <= n (k = 2, 3), by bisection
RECURSIVE RootSearch(_, _, _, _)
RootSearch(n, k, lo, hi) ==
    Only({ IF l >= h THEN l
           ELSE Only({ IF (IF k = 2 THEN mid * mid ELSE mid * mid * mid) <= n
                       THEN RootSearch(n, k, mid, h)
                       ELSE RootSearch(n, k, l, mid - 1) :
                       mid \in {(l + h + 1) \div 2} }) :
           l \in {lo}, h \in {hi} })

\* sqrt(n) of an integer n, rounded to the nearest integer
ISqrt(n) ==
    Only({ IF IsNaN(x) \/ x < 0 THEN NaN
           ELSE Only({ IF x - r * r > r THEN r + 1 ELSE r :
                       r \in {RootSearch(x, 2, 0, 46340)} }) :
           x \in {n} })

\* the cube root of an integer n >= 0, rounded to the nearest integer
ICbrt(n) ==
    Only({ IF IsNaN(x) \/ x < 0 THEN NaN
           ELSE Only({ IF r < 1290 /\ (r + 1) * (r + 1) * (r + 1) - x < x - r * r * r
                       THEN r + 1 ELSE r :
                       r \in {RootSearch(x, 3, 0, 1290)} }) :
           x \in {n} })

\* sqrt(a) of a double a scaled by SC
FSqrt(a) == Only({ IF IsNaN(x) \/ x < 0 THEN NaN ELSE ISqrt(x * SC) : x \in {a} })

\* sin on [0, PI/2]: the Taylor polynomial to x^9, at ten times the resolution
SinQ(x) ==
    Only({ Only({ Only({ Only({ Only({ RDiv(RDiv(10 * v * t1, 10 * SC), 10) :
                  t1 \in {10 * SC - RDiv(RDiv(x2, 6) * t2, 10 * SC)} }) :
                  t2 \in {10 * SC - RDiv(RDiv(x2, 20) * t3, 10 * SC)} }) :
                  t3 \in {10 * SC - RDiv(RDiv(x2, 42) * (10 * SC - RDiv(x2, 72)), 10 * SC)} }) :
                  x2 \in {RDiv(100 * v * v, 10 * SC)} }) :
           v \in {x} })

\* sin(x), x in radians
Sin(x) ==
    Only({ IF IsNaN(v) THEN NaN
           ELSE Only({ IF r <= HalfPi THEN SinQ(r)
                       ELSE IF r <= PI THEN SinQ(PI - r)
                       ELSE IF r <= PI + HalfPi THEN -SinQ(r - PI)
                       ELSE -SinQ(TwoPi - r) :
                       r \in {v % TwoPi} }) :
           v \in {x} })

\* cos(x), x in radians
Cos(x) == Only({ IF IsNaN(v) THEN NaN ELSE Sin(v + HalfPi) : v \in {x} })

\* atan on [0, 1]: z (PI/4 + (1 - z)(0.2447 + 0.0663 z))
AtanQ(z) ==
    Only({ RDiv(RDiv(PI_e4 * SC, 40000) * v, SC)
             + RDiv(RDiv(v * (SC - v), SC)
                      * (RDiv(2447 * SC, 10000) + RDiv(663 * v, 10000)), SC) :
           v \in {z} })

\* atan2(y, x), in radians in [-PI, PI]
Atan2(y, x) ==
    Only({ IF IsNaN(vy) \/ IsNaN(vx) THEN NaN
           ELSE IF vx = 0 /\ vy = 0 THEN 0
           ELSE Only({ Only({ IF vy < 0 THEN -b ELSE b :
                              b \in {IF vx < 0 THEN PI - a ELSE a} }) :
                       a \in {IF Abs(vy) <= Abs(vx)
                              THEN AtanQ(RDiv(Abs(vy) * SC, Abs(vx)))
                              ELSE HalfPi - AtanQ(RDiv(Abs(vx) * SC, Abs(vy)))} }) :
           vy \in {y}, vx \in {x} })

\* asin(u) and acos(u): NaN outside [-1, 1]
Asin(u) ==
    Only({ IF IsNaN(v) \/ Abs(v) > SC THEN NaN
           ELSE Atan2(v, ISqrt(SC * SC - v * v)) :
           v \in {u} })

Acos(u) ==
    Only({ IF IsNaN(v) \/ Abs(v) > SC THEN NaN
           ELSE Atan2(ISqrt(SC * SC - v * v), v) :
           v \in {u} })

---------------------------------------------------------------------------
(* Helper functions: day-number <-> calendar date *)

\* g_scdYM = 365.25 = YM4 / 4
YM4 == 1461

\* one tick is one second: c_dTN = ticks / TicksPerDay
TicksPerDay == 86400

\* fnday without the year decrement for January and February
fnday_NoYearCarry(p_iy, p_im, p_id) ==
    LET im == IF p_im < 3 THEN p_im + 12 ELSE p_im
    IN  Trunc(p_iy * YM4, 4) + Trunc((im + 1) * 306, 10) + (p_id - 428)

\* fnday with months of 30 days where the code has 30.6
fnday_ThirtyDayMonths(p_iy, p_im, p_id) ==
    LET im == IF p_im < 3 THEN p_im + 12 ELSE p_im
        iy == IF p_im < 3 THEN p_iy - 1 ELSE p_iy
    IN  Trunc(iy * YM4, 4) + (im + 1) * 30 + (p_id - 428)

\* static long fnday(int p_iy, int p_im, int p_id)
fnday(p_iy, p_im, p_id) ==
    LET im == IF p_im < 3 THEN p_im + 12 ELSE p_im
        iy == IF p_im < 3 THEN p_iy - 1 ELSE p_iy
    IN  Trunc(iy * YM4, 4) + Trunc((im + 1) * 306, 10) + (p_id - 428)

\* fndate dividing by 30.6 where the code divides by 30.61
fndate_Month306(p_idt) ==
    LET d1 == p_idt + 428
        y1 == Trunc((10 * d1 - 1221) * 2, 5 * YM4)
        d2 == d1 - Trunc(y1 * YM4, 4)
        m1 == Trunc(d2 * 10, 306)
        d3 == d2 - Trunc(m1 * 306, 10)
        m2 == m1 - 1
    IN  [year  |-> IF m2 > 12 THEN y1 + 1 ELSE y1,
         month |-> IF m2 > 12 THEN m2 - 12 ELSE m2,
         day   |-> d3]

\* static void fndate(int &p_iy, int &p_im, int &p_id, long p_idt)
fndate(p_idt) ==
    LET d1 == p_idt + 428
        \* (int)((idt - 122.1) / 365.25) = (int)((20 idt - 2442) / 7305)
        y1 == Trunc((10 * d1 - 1221) * 2, 5 * YM4)
        d2 == d1 - Trunc(y1 * YM4, 4)
        \* (int)(idt / 30.61)
        m1 == Trunc(d2 * 100, 3061)
        \* idt -= (long)(im * 30.6)
        d3 == d2 - Trunc(m1 * 306, 10)
        m2 == m1 - 1
    IN  [year  |-> IF m2 > 12 THEN y1 + 1 ELSE y1,
         month |-> IF m2 > 12 THEN m2 - 12 ELSE m2,
         day   |-> d3]

---------------------------------------------------------------------------
(* class P13DateTime *)

\* P13DateTime::P13DateTime()
P13DateTime == [c_lDN |-> 0, c_dTN |-> 0]

\* void P13DateTime::settime(year, month, day, h, m, s)
settime(p_iyear, p_imonth, p_iday, p_ih, p_im, p_is) ==
    [c_lDN |-> fnday(p_iyear, p_imonth, p_iday),
     \* (h + m/60 + s/3600) / 24 of a day
     c_dTN |-> 3600 * p_ih + 60 * p_im + p_is]

\* void P13DateTime::gettime(year, month, day, h, m, s)
gettime(t) ==
    LET date == fndate(t.c_lDN)
        \* l_dtime, as a multiple of 1/TicksPerDay
        t1 == t.c_dTN * 24
        ih == Trunc(t1, TicksPerDay)
        t2 == (t1 - ih * TicksPerDay) * 60
        im == Trunc(t2, TicksPerDay)
        t3 == (t2 - im * TicksPerDay) * 60
        is == Trunc(t3, TicksPerDay)
    IN  [year |-> date.year, month |-> date.month, day |-> date.day,
         h |-> ih, m |-> im, s |-> is]

\* add that carries the whole days into c_lDN and leaves them in c_dTN too
add_KeepsWholeDays(t, p_ddays) ==
    LET tn == t.c_dTN + p_ddays
    IN  [c_lDN |-> t.c_lDN + Trunc(tn, TicksPerDay),
         c_dTN |-> tn]

\* void P13DateTime::add(double p_ddays), p_ddays in ticks
add(t, p_ddays) ==
    LET tn == t.c_dTN + p_ddays
    IN  [c_lDN |-> t.c_lDN + Trunc(tn, TicksPerDay),
         c_dTN |-> tn - Trunc(tn, TicksPerDay) * TicksPerDay]

\* roundup that leaves a timestamp on a boundary where it is
roundup_StayOnBoundary(t, p_dtime) ==
    LET l_dinc == Fmod(p_dtime - Fmod(t.c_dTN, p_dtime), p_dtime)
        tn     == t.c_dTN + l_dinc
    IN  [c_lDN |-> t.c_lDN + Trunc(tn, TicksPerDay),
         c_dTN |-> tn - Trunc(tn, TicksPerDay) * TicksPerDay]

\* void P13DateTime::roundup(double p_dtime), p_dtime in ticks
roundup(t, p_dtime) ==
    LET l_dinc == p_dtime - Fmod(t.c_dTN, p_dtime)
        tn     == t.c_dTN + l_dinc
    IN  [c_lDN |-> t.c_lDN + Trunc(tn, TicksPerDay),
         c_dTN |-> tn - Trunc(tn, TicksPerDay) * TicksPerDay]

---------------------------------------------------------------------------
(* Helper functions: fields of a TLE line.  A line is a sequence of         *)
(* characters; column i of the code (counted from 0) is element i + 1.      *)

DigitOf == ("0" :> 0) @@ ("1" :> 1) @@ ("2" :> 2) @@ ("3" :> 3) @@ ("4" :> 4)
             @@ ("5" :> 5) @@ ("6" :> 6) @@ ("7" :> 7) @@ ("8" :> 8) @@ ("9" :> 9)

IsDigit(c) == c \in DOMAIN DigitOf

\* l_acbuf: the characters p_ccc[p_ii0] .. p_ccc[p_ii1 - 1]
CutField(p_ccc, p_ii0, p_ii1) == SubSeq(p_ccc, p_ii0 + 1, p_ii1)

\* the first position of buf at or after i that holds no blank
RECURSIVE SkipBlanks(_, _)
SkipBlanks(buf, i) ==
    IF i <= Len(buf) /\ buf[i] = " " THEN SkipBlanks(buf, i + 1) ELSE i

\* the first position of buf at or after i that holds no digit
RECURSIVE SkipDigits(_, _)
SkipDigits(buf, i) ==
    IF i <= Len(buf) /\ IsDigit(buf[i]) THEN SkipDigits(buf, i + 1) ELSE i

\* the value of the digits buf[i] .. buf[j - 1]
RECURSIVE DigitsValue(_, _, _)
DigitsValue(buf, i, j) ==
    IF j <= i THEN 0 ELSE 10 * DigitsValue(buf, i, j - 1) + DigitOf[buf[j - 1]]

\* sc times the fraction 0.d1 d2 ... of the digits buf[i] .. buf[j - 1]
RECURSIVE FractionValue(_, _, _, _)
FractionValue(buf, i, j, sc) ==
    IF j <= i THEN 0
    ELSE RDiv(DigitOf[buf[i]] * sc + FractionValue(buf, i + 1, j, sc), 10)

\* atol(buf): blanks, a sign, digits; whatever follows is ignored and a text
\* that starts with no number gives 0
atol(buf) ==
    Only({ Only({ Only({ IF sg /\ buf[i0] = "-" THEN -v ELSE v :
                         v \in {DigitsValue(buf, i1, SkipDigits(buf, i1))} }) :
                  i1 \in {IF sg THEN i0 + 1 ELSE i0} }) :
           i0 \in {SkipBlanks(buf, 1)},
           sg \in {SkipBlanks(buf, 1) <= Len(buf)
                     /\ buf[SkipBlanks(buf, 1)] \in {"+", "-"}} })

\* the fraction after the point at buf[i - 1], times sc: a fraction below 1
\* stays below 1 whatever the resolution sc
FractionBelowOne(buf, i, sc) ==
    Only({ IF f >= sc /\ sc > 1 THEN sc - 1 ELSE f :
           f \in {FractionValue(buf, i, SkipDigits(buf, i), sc)} })

strtod_WholeOrZero(buf, sc) ==
    Only({ Only({ Only({ Only({ IF SkipBlanks(buf, i3) <= Len(buf) THEN 0
                                ELSE IF sg /\ buf[i0] = "-" THEN -v ELSE v :
                  v \in {DigitsValue(buf, i1, i2) * sc
                           + (IF i2 <= Len(buf) /\ buf[i2] = "."
                              THEN FractionBelowOne(buf, i2 + 1, sc)
                              ELSE 0)},
                  i3 \in {IF i2 <= Len(buf) /\ buf[i2] = "."
                          THEN SkipDigits(buf, i2 + 1) ELSE i2} }) :
                  i2 \in {SkipDigits(buf, i1)} }) :
                  i1 \in {IF sg THEN i0 + 1 ELSE i0} }) :
           i0 \in {SkipBlanks(buf, 1)},
           sg \in {SkipBlanks(buf, 1) <= Len(buf)
                     /\ buf[SkipBlanks(buf, 1)] \in {"+", "-"}} })

\* strtod(buf, NULL) times sc: blanks, a sign, digits, a point, digits;
\* whatever follows is ignored and a text that starts with no number gives 0
\* (exponents, hexadecimal, "inf" and "nan" are not modelled)
strtod(buf, sc) ==
    Only({ Only({ Only({ Only({ IF sg /\ buf[i0] = "-" THEN -v ELSE v :
                  v \in {DigitsValue(buf, i1, i2) * sc
                           + (IF i2 <= Len(buf) /\ buf[i2] = "."
                              THEN FractionBelowOne(buf, i2 + 1, sc)
                              ELSE 0)} }) :
                  i2 \in {SkipDigits(buf, i1)} }) :
                  i1 \in {IF sg THEN i0 + 1 ELSE i0} }) :
           i0 \in {SkipBlanks(buf, 1)},
           sg \in {SkipBlanks(buf, 1) <= Len(buf)
                     /\ buf[SkipBlanks(buf, 1)] \in {"+", "-"}} })

\* static double getdouble(const char *p_ccc, int p_ii0, int p_ii1), times sc
getdouble(p_ccc, p_ii0, p_ii1, sc) ==
    Only({ strtod(l_acbuf, sc) : l_acbuf \in {CutField(p_ccc, p_ii0, p_ii1)} })

\* static long getlong(const char *p_ccc, int p_ii0, int p_ii1)
getlong(p_ccc, p_ii0, p_ii1) ==
    Only({ atol(l_acbuf) : l_acbuf \in {CutField(p_ccc, p_ii0, p_ii1)} })

---------------------------------------------------------------------------
(* Constants of AioP13.h, in the units of the model *)

\* g_scdRE, km, and g_scdRP = RE (1 - FL), km
g_scdRE == 6378
FL_inv  == 298
g_scdRP == g_scdRE - RDiv(g_scdRE, FL_inv)

\* g_scdGM, km^3/s^2, and g_scdJ2 times 10^6
g_scdGM == 398600
J2_e6   == 1083

\* g_scdYT, days; g_scdWW and g_scdWE, rad/day scaled by SC; g_scdW0, rad/s
\* scaled by SC^2
YT_e2   == 36524
g_scdWW == RDiv(TwoPi * 100, YT_e2)
g_scdWE == TwoPi + g_scdWW
g_scdW0 == RDiv(g_scdWE * SC, TicksPerDay)

\* g_scdYG, and g_scdG0 in degrees scaled by SC
g_scdYG == 2014
G0_e4   == 995828
g_scdG0 == RDiv(G0_e4 * SC, 10000)

---------------------------------------------------------------------------
(* class P13Satellite.  Units: angles in radians, eccentricity and the      *)
(* direction cosines scaled by SC; lengths in km; speeds in m/s; cp_dTE in  *)
(* ticks; cp_dMM, cp_dPC, cp_dQD, cp_dWD in rad/day scaled by SC; cp_dM2,   *)
(* cp_dN0 and cp_dDC scaled by SC^2.                                        *)

\* the fields tle() sets
ElementFields ==
    { "c_ccSatName", "cp_lN", "cp_lYE", "cp_dTE", "cp_dIN", "cp_dRA", "cp_dEC",
      "cp_dWP", "cp_dMA", "cp_dMM", "cp_dM2", "cp_dRV", "cp_lDE", "cp_dN0",
      "cp_dA_0", "cp_dB_0", "cp_dPC", "cp_dQD", "cp_dWD", "cp_dDC" }

\* the fields predict() and elaz() set
StateFields == { "c_vecSAT", "c_vecVEL", "c_vecS", "c_vecV", "cp_dRS", "cp_dRR" }

\* the parsed elements and derived constants of a satellite
Elements(s) == [f \in ElementFields |-> s[f]]

EpochYear_Pivot57(ye) == IF ye < 57 THEN ye + 2000 ELSE ye + 1900

\* if ( cp_lYE < 58 ) cp_lYE += 2000; else cp_lYE += 1900;
EpochYear(ye) == IF ye < 58 THEN ye + 2000 ELSE ye + 1900

EpochDay_FromJanuary1(lYE, te) == fnday(lYE, 1, 1) + Trunc(te, TicksPerDay)

\* cp_lDE = fnday(cp_lYE, 1, 0) + (long)cp_dTE, te being cp_dTE in ticks
EpochDay(lYE, te) == fnday(lYE, 1, 0) + Trunc(te, TicksPerDay)

\* void P13Satellite::tle(p_ccnm, p_ccl1, p_ccl2), on the object s
tle(s, p_ccnm, p_ccl1, p_ccl2) ==
    Only({ Only({ Only({ Only({
        [s EXCEPT !.c_ccSatName = p_ccnm,
                  !.cp_lN  = getlong(p_ccl1, 2, 7),
                  !.cp_lYE = lYE,
                  !.cp_dTE = te - Trunc(te, TicksPerDay) * TicksPerDay,
                  !.cp_dM2 = dM2,
                  !.cp_dIN = dIN, !.cp_dRA = dRA, !.cp_dEC = dEC,
                  !.cp_dWP = dWP, !.cp_dMA = dMA, !.cp_dMM = dMM,
                  !.cp_dRV = getlong(p_ccl2, 63, 68),
                  \* convert TE to DE and TE
                  !.cp_lDE = EpochDay(lYE, te),
                  !.cp_dN0 = dN0, !.cp_dA_0 = dA_0, !.cp_dB_0 = dB_0,
                  !.cp_dPC = dPC,
                  !.cp_dQD = FNeg(FMul(dPC, l_dCI)),
                  !.cp_dWD = IF IsNaN(dPC) THEN NaN
                             ELSE RDiv(dPC * (5 * FMul(l_dCI, l_dCI) - SC), 2 * SC),
                  !.cp_dDC = IF dMM = 0 THEN NaN ELSE RDiv(-2 * dM2 * SC, 3 * dMM)] :
        \* 1.5 * J2 * PC * PC * MM, PC = RE * A_0 / (B_0 * B_0)
        dPC \in {Only({ IF IsNaN(ppm) THEN NaN ELSE RDiv(ppm * 3 * J2_e6, 2000000) :
                        ppm \in {Only({ FMul(FMul(pc, pc), dMM) :
                                   pc \in {Only({ IF IsNaN(b2) \/ b2 = 0 THEN NaN
                                                  ELSE RDiv(g_scdRE * dA_0, b2) :
                                                  b2 \in {IF IsNaN(dB_0) THEN NaN
                                                          ELSE RDiv(dB_0 * dB_0, SC)} })} })} })} }) :
        dB_0 \in {FMul(dA_0, FSqrt(FSub(SC, FMul(dEC, dEC))))} }) :
        \* pow(GM / (N0 * N0), 1.0/3.0): the cube root of GM SC / N0^2, in units of 1/100
        dA_0 \in {IF dN0 = 0 THEN NaN
                  ELSE RDiv(SC * ICbrt(RDiv(g_scdGM * SC, dN0 * dN0) * 1000000), 100)} }) :
        lYE   \in {EpochYear(getlong(p_ccl1, 18, 20))},
        te    \in {getdouble(p_ccl1, 20, 32, TicksPerDay)},
        dM2   \in {FMul(TwoPi, getdouble(p_ccl1, 33, 43, SC * SC))},
        dIN   \in {radians(getdouble(p_ccl2, 8, 16, SC))},
        dRA   \in {radians(getdouble(p_ccl2, 17, 25, SC))},
        dEC   \in {RDiv(getdouble(p_ccl2, 26, 33, 1) * SC, 10000000)},
        dWP   \in {radians(getdouble(p_ccl2, 34, 42, SC))},
        dMA   \in {radians(getdouble(p_ccl2, 43, 51, SC))},
        dMM   \in {FMul(TwoPi, getdouble(p_ccl2, 52, 63, SC))},
        dN0   \in {RDiv(FMul(TwoPi, getdouble(p_ccl2, 52, 63, SC)) * SC, TicksPerDay)},
        l_dCI \in {Cos(radians(getdouble(p_ccl2, 8, 16, SC)))} })

\* an object whose fields are all 0, for the constructor to fill
BlankSatellite ==
    [f \in ElementFields \cup StateFields |->
        IF f \in {"c_vecSAT", "c_vecVEL", "c_vecS", "c_vecV"} THEN <<0, 0, 0>>
        ELSE IF f = "c_ccSatName" THEN "" ELSE 0]

\* P13Satellite::P13Satellite(p_ccnm, p_ccl1, p_ccl2): tle() and nothing else,
\* so the fields of StateFields keep whatever the memory held (junk)
P13Satellite(junk, p_ccnm, p_ccl1, p_ccl2) ==
    tle([f \in ElementFields \cup StateFields |->
            IF f \in StateFields THEN junk[f] ELSE BlankSatellite[f]],
        p_ccnm, p_ccl1, p_ccl2)

\* the most Newton iterations an evaluation of predict() follows
MaxNewton == 60

\* while (fabs(l_dD) > 1.0E-5): a NaN compares false
TolInv == 100000
KeepGoing(l_dD) ==
    /\ ~IsNaN(l_dD)
    /\ IF Abs(l_dD) >= SC THEN TRUE ELSE Abs(l_dD) * TolInv > SC

KeplerStep_ForgetsM(dEC, l_dM, l_dEA) ==
    Only({ Only({ [C_EA |-> l_dC_EA, S_EA |-> l_dS_EA, DNOM |-> l_dDNOM, D |-> l_dD,
                   EA |-> FSub(l_dEA, l_dD)] :
                  l_dD \in {FDiv(FSub(l_dEA, FMul(dEC, l_dS_EA)), l_dDNOM)} }) :
           l_dC_EA \in {Cos(l_dEA)},
           l_dS_EA \in {Sin(l_dEA)},
           l_dDNOM \in {FSub(SC, FMul(dEC, Cos(l_dEA)))} })

\* one pass through the body of the do-while of predict()
KeplerStep(dEC, l_dM, l_dEA) ==
    Only({ Only({ [C_EA |-> l_dC_EA, S_EA |-> l_dS_EA, DNOM |-> l_dDNOM, D |-> l_dD,
                   EA |-> FSub(l_dEA, l_dD)] :
                  \* Change to EA for better solution
                  l_dD \in {FDiv(FSub(FSub(l_dEA, FMul(dEC, l_dS_EA)), l_dM), l_dDNOM)} }) :
           l_dC_EA \in {Cos(l_dEA)},
           l_dS_EA \in {Sin(l_dEA)},
           l_dDNOM \in {FSub(SC, FMul(dEC, Cos(l_dEA)))} })

\* the do-while of predict(), from l_dEA after n passes: the locals after the
\* last pass, the number of passes, and whether the loop has ended by then
RECURSIVE KeplerLoop(_, _, _, _)
KeplerLoop(dEC, l_dM, l_dEA, n) ==
    Only({ IF KeepGoing(st.D) /\ n + 1 < MaxNewton
           THEN KeplerLoop(dEC, l_dM, st.EA, n + 1)
           ELSE st @@ [iters |-> n + 1, done |-> ~KeepGoing(st.D)] :
           st \in {KeplerStep(dEC, l_dM, l_dEA)} })

\* a vector, component by component
Vec3(x, y, z) == <<x, y, z>>

\* predict() taking the hour angle of the epoch at the start of the epoch day
PredictAnomaly_EpochDayOnly(s, p_dt) ==
    Only({ Only({ Only({ Only({
        [T |-> l_dT, DT |-> l_dDT,
         KD  |-> IF IsNaN(l_dDT) THEN NaN ELSE SC + RDiv(4 * l_dDT, SC),
         KDP |-> IF IsNaN(l_dDT) THEN NaN ELSE SC - RDiv(7 * l_dDT, SC),
         DR |-> l_dDR,
         \* M now in range 0..2PI
         M  |-> IF IsNaN(l_dM) THEN NaN ELSE l_dM - l_dDR * TwoPi,
         RN |-> s.cp_dRV + l_dDR,
         \* GHA Aries, epoch
         GHAE |-> FAdd(radians(g_scdG0),
                       FMul((s.cp_lDE - fnday(g_scdYG, 1, 0)) * SC, g_scdWE))] :
        \* Strip out whole no of revs
        l_dDR \in {IF IsNaN(l_dM) THEN 0 ELSE Trunc(l_dM, TwoPi)} }) :
        \* Mean anomaly at YR,TN
        l_dM \in {FAdd(s.cp_dMA,
                       FMul(FMul(s.cp_dMM, l_dT),
                            IF IsNaN(l_dDT) THEN NaN ELSE SC - RDiv(3 * l_dDT, SC)))} }) :
        \* Linear drag terms
        l_dDT \in {IF IsNaN(s.cp_dDC) THEN NaN ELSE RDiv(s.cp_dDC * l_dT, 2 * SC)} }) :
        \* Elapsed T since epoch, days
        l_dT \in {(p_dt.c_lDN - s.cp_lDE) * SC
                    + RDiv((p_dt.c_dTN - s.cp_dTE) * SC, TicksPerDay)} })

\* predict(): the elapsed time, the drag terms and the mean anomaly
PredictAnomaly(s, p_dt) ==
    Only({ Only({ Only({ Only({
        [T |-> l_dT, DT |-> l_dDT,
         KD  |-> IF IsNaN(l_dDT) THEN NaN ELSE SC + RDiv(4 * l_dDT, SC),
         KDP |-> IF IsNaN(l_dDT) THEN NaN ELSE SC - RDiv(7 * l_dDT, SC),
         DR |-> l_dDR,
         \* M now in range 0..2PI
         M  |-> IF IsNaN(l_dM) THEN NaN ELSE l_dM - l_dDR * TwoPi,
         RN |-> s.cp_dRV + l_dDR,
         \* GHA Aries, epoch
         GHAE |-> FAdd(radians(g_scdG0),
                       FMul((s.cp_lDE - fnday(g_scdYG, 1, 0)) * SC
                                + RDiv(s.cp_dTE * SC, TicksPerDay), g_scdWE))] :
        \* Strip out whole no of revs
        l_dDR \in {IF IsNaN(l_dM) THEN 0 ELSE Trunc(l_dM, TwoPi)} }) :
        \* Mean anomaly at YR,TN
        l_dM \in {FAdd(s.cp_dMA,
                       FMul(FMul(s.cp_dMM, l_dT),
                            IF IsNaN(l_dDT) THEN NaN ELSE SC - RDiv(3 * l_dDT, SC)))} }) :
        \* Linear drag terms
        l_dDT \in {IF IsNaN(s.cp_dDC) THEN NaN ELSE RDiv(s.cp_dDC * l_dT, 2 * SC)} }) :
        \* Elapsed T since epoch, days
        l_dT \in {(p_dt.c_lDN - s.cp_lDE) * SC
                    + RDiv((p_dt.c_dTN - s.cp_dTE) * SC, TicksPerDay)} })

\* predict(): the plane -> celestial coordinate transformation, rows CX, CY, CZ
PredictPlane(s, a) ==
    Only({ [CX |-> Vec3(FSub(FMul(l_dCW, l_dCQ), FMul(FMul(l_dSW, l_dCI), l_dSQ)),
                        FSub(FNeg(FMul(l_dSW, l_dCQ)), FMul(FMul(l_dCW, l_dCI), l_dSQ)),
                        FMul(l_dSI, l_dSQ)),
            CY |-> Vec3(FAdd(FMul(l_dCW, l_dSQ), FMul(FMul(l_dSW, l_dCI), l_dCQ)),
                        FAdd(FNeg(FMul(l_dSW, l_dSQ)), FMul(FMul(l_dCW, l_dCI), l_dCQ)),
                        FNeg(FMul(l_dSI, l_dCQ))),
            CZ |-> Vec3(FMul(l_dSW, l_dSI), FMul(l_dCW, l_dSI), l_dCI)] :
           l_dCW \in {Cos(FAdd(s.cp_dWP, FMul(FMul(s.cp_dWD, a.T), a.KDP)))},
           l_dSW \in {Sin(FAdd(s.cp_dWP, FMul(FMul(s.cp_dWD, a.T), a.KDP)))},
           l_dCQ \in {Cos(FAdd(s.cp_dRA, FMul(FMul(s.cp_dQD, a.T), a.KDP)))},
           l_dSQ \in {Sin(FAdd(s.cp_dRA, FMul(FMul(s.cp_dQD, a.T), a.KDP)))},
           l_dCI \in {Cos(s.cp_dIN)},
           l_dSI \in {Sin(s.cp_dIN)} })

\* predict(): position and velocity in the plane of the ellipse, velocity in
\* km/s scaled by SC
PredictEllipse(s, a, k) ==
    Only({ [Sx |-> FMul(l_dA, FSub(k.C_EA, s.cp_dEC)),
            Sy |-> FMul(l_dB, k.S_EA),
            Vx |-> FMul(FDiv(FNeg(FMul(l_dA, k.S_EA)), k.DNOM), s.cp_dN0),
            Vy |-> FMul(FDiv(FMul(l_dB, k.C_EA), k.DNOM), s.cp_dN0),
            RS |-> FMul(l_dA, k.DNOM)] :
           l_dA \in {FMul(s.cp_dA_0, a.KD)},
           l_dB \in {FMul(s.cp_dB_0, a.KD)} })

\* predict(): rotation of a celestial vector into geocentric coordinates
Geocentric(v, l_dCG, l_dSG) ==
    Vec3(FSub(FMul(v[1], l_dCG), FMul(v[2], l_dSG)),
         FAdd(FMul(v[1], l_dSG), FMul(v[2], l_dCG)),
         v[3])

\* the local variables of predict() at its last line, and what it stores
PredictLocals(s, p_dt) ==
    Only({ Only({ Only({ Only({
        [T |-> a.T, DT |-> a.DT, M |-> a.M, DR |-> a.DR, RN |-> a.RN,
         EA |-> k.EA, D |-> k.D, DNOM |-> k.DNOM, iters |-> k.iters, done |-> k.done,
         GHAE |-> a.GHAE, GHAA |-> l_dGHAA,
         RS |-> e.RS, SAT |-> SAT, VEL |-> VEL,
         S |-> Geocentric(SAT, Cos(FNeg(l_dGHAA)), Sin(FNeg(l_dGHAA))),
         V |-> Geocentric(VEL, Cos(FNeg(l_dGHAA)), Sin(FNeg(l_dGHAA)))] :
        SAT \in {Vec3(FAdd(FMul(e.Sx, c.CX[1]), FMul(e.Sy, c.CX[2])),
                      FAdd(FMul(e.Sx, c.CY[1]), FMul(e.Sy, c.CY[2])),
                      FAdd(FMul(e.Sx, c.CZ[1]), FMul(e.Sy, c.CZ[2])))},
        VEL \in {Vec3(FAdd(FMul(e.Vx, c.CX[1]), FMul(e.Vy, c.CX[2])),
                      FAdd(FMul(e.Vx, c.CY[1]), FMul(e.Vy, c.CY[2])),
                      FAdd(FMul(e.Vx, c.CZ[1]), FMul(e.Vy, c.CZ[2])))} }) :
        e \in {PredictEllipse(s, a, k)} }) :
        \* Solve M = EA - EC*SIN(EA) for EA given M, by Newton's Method
        k \in {KeplerLoop(s.cp_dEC, a.M, a.M, 0)},
        c \in {PredictPlane(s, a)},
        \* GHA Aries at elapsed time T
        l_dGHAA \in {FAdd(a.GHAE, FMul(g_scdWE, a.T))} }) :
        a \in {PredictAnomaly(s, p_dt)} })

predict_AdvancesFromLast(s, p_dt) ==
    Only({ [s EXCEPT !.cp_dRS = l.RS, !.c_vecSAT = l.SAT, !.c_vecVEL = l.VEL,
                     !.c_vecS = Vec3(FAdd(s.c_vecS[1], l.S[1]), l.S[2], l.S[3]),
                     !.c_vecV = l.V] :
           l \in {PredictLocals(s, p_dt)} })

predict_StoresRangeRate(s, p_dt) ==
    Only({ [s EXCEPT !.cp_dRS = l.RS, !.c_vecSAT = l.SAT, !.c_vecVEL = l.VEL,
                     !.c_vecS = l.S, !.c_vecV = l.V, !.cp_dRR = 0] :
           l \in {PredictLocals(s, p_dt)} })

predict_StoresAnomaly(s, p_dt) ==
    Only({ [s EXCEPT !.cp_dRS = l.RS, !.c_vecSAT = l.SAT, !.c_vecVEL = l.VEL,
                     !.c_vecS = l.S, !.c_vecV = l.V, !.cp_dMA = l.M, !.cp_dRV = l.RN] :
           l \in {PredictLocals(s, p_dt)} })

\* void P13Satellite::predict(const P13DateTime &p_dt), on the object s
predict(s, p_dt) ==
    Only({ [s EXCEPT !.cp_dRS = l.RS, !.c_vecSAT = l.SAT, !.c_vecVEL = l.VEL,
                     !.c_vecS = l.S, !.c_vecV = l.V] :
           l \in {PredictLocals(s, p_dt)} })

\* void P13Satellite::latlon(double &p_dlat, double &p_dlon), degrees
latlon(s) ==
    [lat |-> degrees(Asin(FDiv(s.c_vecS[3], s.cp_dRS))),
     lon |-> degrees(Atan2(s.c_vecS[2], s.c_vecS[1]))]

\* the constructor with the x component of North mirrored
P13Observer_NorthMirrored(p_ccnm, p_dlat, p_dlon, p_dasl) ==
    Only({ Only({ Only({ Only({
        [c_ccObsName |-> p_ccnm, c_dLA |-> radians(p_dlat), c_dLO |-> radians(p_dlon),
         c_dHT |-> c_dHT,
         c_vecU |-> U,
         c_vecE |-> Vec3(-l_dSO, l_dCO, 0),
         c_vecN |-> Vec3(FMul(l_dSL, l_dCO), FMul(-l_dSL, l_dSO), l_dCL),
         c_vecO |-> O,
         c_vecV |-> Vec3(FMul(-O[2], g_scdW0), FMul(O[1], g_scdW0), 0)] :
        O \in {Vec3(FMul(RDiv(g_scdRE * g_scdRE, l_dD) + c_dHT, U[1]),
                    FMul(RDiv(g_scdRE * g_scdRE, l_dD) + c_dHT, U[2]),
                    FMul(RDiv(g_scdRP * g_scdRP, l_dD) + c_dHT, U[3]))} }) :
        l_dD \in {ISqrt(FMul(FMul(g_scdRE * g_scdRE, l_dCL), l_dCL)
                          + FMul(FMul(g_scdRP * g_scdRP, l_dSL), l_dSL))} }) :
        U \in {Vec3(FMul(l_dCL, l_dCO), FMul(l_dCL, l_dSO), l_dSL)} }) :
        c_dHT \in {RDiv(p_dasl, 1000)},
        l_dCL \in {Cos(radians(p_dlat))},
        l_dSL \in {Sin(radians(p_dlat))},
        l_dCO \in {Cos(radians(p_dlon))},
        l_dSO \in {Sin(radians(p_dlon))} })

\* P13Observer::P13Observer(p_ccnm, p_dlat, p_dlon, p_dasl): degrees scaled by
\* SC and metres in, unit vectors scaled by SC, c_vecO in km, c_vecV in km/s
\* scaled by SC
P13Observer(p_ccnm, p_dlat, p_dlon, p_dasl) ==
    Only({ Only({ Only({ Only({
        [c_ccObsName |-> p_ccnm, c_dLA |-> radians(p_dlat), c_dLO |-> radians(p_dlon),
         c_dHT |-> c_dHT,
         c_vecU |-> U,
         c_vecE |-> Vec3(-l_dSO, l_dCO, 0),
         c_vecN |-> Vec3(FMul(-l_dSL, l_dCO), FMul(-l_dSL, l_dSO), l_dCL),
         c_vecO |-> O,
         c_vecV |-> Vec3(FMul(-O[2], g_scdW0), FMul(O[1], g_scdW0), 0)] :
        O \in {Vec3(FMul(RDiv(g_scdRE * g_scdRE, l_dD) + c_dHT, U[1]),
                    FMul(RDiv(g_scdRE * g_scdRE, l_dD) + c_dHT, U[2]),
                    FMul(RDiv(g_scdRP * g_scdRP, l_dD) + c_dHT, U[3]))} }) :
        l_dD \in {ISqrt(FMul(FMul(g_scdRE * g_scdRE, l_dCL), l_dCL)
                          + FMul(FMul(g_scdRP * g_scdRP, l_dSL), l_dSL))} }) :
        U \in {Vec3(FMul(l_dCL, l_dCO), FMul(l_dCL, l_dSO), l_dSL)} }) :
        c_dHT \in {RDiv(p_dasl, 1000)},
        l_dCL \in {Cos(radians(p_dlat))},
        l_dSL \in {Sin(radians(p_dlat))},
        l_dCO \in {Cos(radians(p_dlon))},
        l_dSO \in {Sin(radians(p_dlon))} })

\* the three-term sums of elaz(), left to right
Dot3(a, b) ==
    Only({ FAdd(FAdd(FMul(x[1], y[1]), FMul(x[2], y[2])), FMul(x[3], y[3])) :
           x \in {a}, y \in {b} })

\* p_daz = degrees(atan2(l_de, l_dn)); if (p_daz < 0.0) p_daz += 360.0;
Azimuth(l_de, l_dn) ==
    Only({ IF ~IsNaN(p_daz) /\ p_daz < 0 THEN p_daz + 360 * SC ELSE p_daz :
           p_daz \in {degrees(Atan2(l_de, l_dn))} })

\* l_vecR of elaz() after "Normalise Range vector", and l_dr
UnitRange(c_vecS, p_obs) ==
    Only({ Only({ [R |-> Vec3(FDiv(R0[1], l_dr), FDiv(R0[2], l_dr), FDiv(R0[3], l_dr)),
                   dr |-> l_dr] :
                  l_dr \in {ISqrt(R0[1] * R0[1] + R0[2] * R0[2] + R0[3] * R0[3])} }) :
           R0 \in {Vec3(c_vecS[1] - p_obs.c_vecO[1],
                        c_vecS[2] - p_obs.c_vecO[2],
                        c_vecS[3] - p_obs.c_vecO[3])} })

\* "Resolve Sat-Obs velocity vector along unit range vector": the value elaz()
\* stores in cp_dRR
RangeRate(c_vecS, c_vecV, p_obs) ==
    Only({ FAdd(FAdd(FMul(FSub(c_vecV[1], p_obs.c_vecV[1]), R[1]),
                     FMul(FSub(c_vecV[2], p_obs.c_vecV[2]), R[2])),
                FMul(c_vecV[3], R[3])) :
           R \in {UnitRange(c_vecS, p_obs).R} })

\* the outputs p_del and p_daz of elaz(), with the locals l_du and l_dr
Look(c_vecS, p_obs) ==
    Only({ Only({ [el |-> degrees(Asin(l_du)),
                   az |-> Azimuth(FAdd(FMul(ur.R[1], p_obs.c_vecE[1]),
                                       FMul(ur.R[2], p_obs.c_vecE[2])),
                                  Dot3(ur.R, p_obs.c_vecN)),
                   du |-> l_du, dr |-> ur.dr] :
                  l_du \in {Dot3(ur.R, p_obs.c_vecU)} }) :
           ur \in {UnitRange(c_vecS, p_obs)} })

elaz_NormalisesInPlace(s, p_obs) ==
    Look(s.c_vecS, p_obs) @@
    [sat |-> [s EXCEPT !.cp_dRR = RangeRate(s.c_vecS, s.c_vecV, p_obs),
                       !.c_vecS = UnitRange(s.c_vecS, p_obs).R]]

\* void P13Satellite::elaz(p_obs, p_del, p_daz): the outputs, and the object
\* after the call
elaz(s, p_obs) ==
    Look(s.c_vecS, p_obs) @@
    [sat |-> [s EXCEPT !.cp_dRR = RangeRate(s.c_vecS, s.c_vecV, p_obs)]]

\* the speed of light of doppler(), km/s
LightSpeed == 299792

doppler_SwapsDirections(s, p_dfreqMHz, p_bodir) ==
    Only({ IF p_bodir THEN FAdd(p_dfreqMHz, l_ddopplershift)
           ELSE FSub(p_dfreqMHz, l_ddopplershift) :
           l_ddopplershift \in {Only({ IF IsNaN(p) THEN NaN ELSE RDiv(p, LightSpeed) :
                                       p \in {FMul(FNeg(p_dfreqMHz), s.cp_dRR)} })} })

\* double P13Satellite::doppler(p_dfreqMHz, p_bodir): MHz scaled by SC
doppler(s, p_dfreqMHz, p_bodir) ==
    Only({ IF p_bodir THEN FSub(p_dfreqMHz, l_ddopplershift)
           ELSE FAdd(p_dfreqMHz, l_ddopplershift) :
           l_ddopplershift \in {Only({ IF IsNaN(p) THEN NaN ELSE RDiv(p, LightSpeed) :
                                       p \in {FMul(FNeg(p_dfreqMHz), s.cp_dRR)} })} })

latlon2xy_Rounds(p_dlat, p_dlon, p_ciMapMaxX, p_ciMapMaxY, ub) ==
    Only({ <<IF IsNaN(lon) THEN ub
             ELSE RDiv((180 * SC + lon) * p_ciMapMaxX, 360 * SC),
             IF IsNaN(lat) THEN ub
             ELSE RDiv((90 * SC - lat) * p_ciMapMaxY, 180 * SC)>> :
           lat \in {p_dlat}, lon \in {p_dlon} })

\* void latlon2xy(p_ix, p_iy, p_dlat, p_dlon, p_ciMapMaxX, p_ciMapMaxY); the
\* cast of a NaN to int is undefined and gives ub
latlon2xy(p_dlat, p_dlon, p_ciMapMaxX, p_ciMapMaxY, ub) ==
    Only({ <<IF IsNaN(lon) THEN ub
             ELSE Trunc((180 * SC + lon) * p_ciMapMaxX, 360 * SC),
             IF IsNaN(lat) THEN ub
             ELSE Trunc((90 * SC - lat) * p_ciMapMaxY, 180 * SC)>> :
           lat \in {p_dlat}, lon \in {p_dlon} })

FootprintAngle_FromOne(l_ii, p_inumberofpoints) ==
    RDiv(TwoPi * (l_ii + 1), p_inumberofpoints)

\* l_da = 2.0 * PI * (double)l_ii / (double)p_inumberofpoints: the angle
\* around the circle of the point l_ii of the footprint loops
FootprintAngle(l_ii, p_inumberofpoints) ==
    RDiv(TwoPi * l_ii, p_inumberofpoints)

\* the rest of the body of the footprint loops for the point at the angle
\* l_da of a circle of angular radius l_dsrad around p_dsatlat / p_dsatlon
FootprintPoint(l_dsrad, p_dsatlat, p_dsatlon, l_da, p_ciMapMaxX, p_ciMapMaxY, ub) ==
    Only({ Only({ Only({
        latlon2xy(degrees(Asin(l_dz)),
                  degrees(Atan2(FAdd(FMul(l_dx, l_dslo), FMul(l_dy, l_dclo)),
                                FSub(FMul(l_dx, l_dclo), FMul(l_dy, l_dslo)))),
                  p_ciMapMaxX, p_ciMapMaxY, ub) :
        \* Rotate point "up" by latitude "satlat"
        l_dx \in {FSub(FMul(l_dcra, l_dcla), FMul(l_dZfp, l_dsla))},
        l_dy \in {l_dYfp},
        l_dz \in {FAdd(FMul(l_dcra, l_dsla), FMul(l_dZfp, l_dcla))} }) :
        \* Circle of points centred on Lat=0, Lon=0
        l_dYfp \in {FMul(l_dsra, Sin(l_da))},
        l_dZfp \in {FMul(l_dsra, Cos(l_da))} }) :
        l_dsra \in {Sin(l_dsrad)},
        l_dcra \in {Cos(l_dsrad)},
        l_dcla \in {Cos(radians(p_dsatlat))},
        l_dsla \in {Sin(radians(p_dsatlat))},
        l_dclo \in {Cos(radians(p_dsatlon))},
        l_dslo \in {Sin(radians(p_dsatlon))} })

footprint_OfOneAU(s, p_inumberofpoints, p_ciMapMaxX, p_ciMapMaxY, p_dsatlat, p_dsatlon, ub) ==
    Only({ [l_ii \in 0 .. p_inumberofpoints - 1 |->
               FootprintPoint(l_dsrad, lat, lon,
                              FootprintAngle(l_ii, p_inumberofpoints),
                              p_ciMapMaxX, p_ciMapMaxY, ub)] :
           l_dsrad \in {Acos(FDiv(g_scdRE, 149597871))},
           lat \in {p_dsatlat}, lon \in {p_dsatlon} })

\* void P13Satellite::footprint(p_aipoints, p_inumberofpoints, p_ciMapMaxX,
\* p_ciMapMaxY, p_dsatlat, p_dsatlon): the points written to p_aipoints
footprint(s, p_inumberofpoints, p_ciMapMaxX, p_ciMapMaxY, p_dsatlat, p_dsatlon, ub) ==
    Only({ [l_ii \in 0 .. p_inumberofpoints - 1 |->
               FootprintPoint(l_dsrad, lat, lon,
                              FootprintAngle(l_ii, p_inumberofpoints),
                              p_ciMapMaxX, p_ciMapMaxY, ub)] :
           \* Radius of footprint circle
           l_dsrad \in {Acos(FDiv(g_scdRE, s.cp_dRS))},
           lat \in {p_dsatlat}, lon \in {p_dsatlon} })

---------------------------------------------------------------------------
(* class P13Sun: unit vectors scaled by SC                                  *)

\* g_scdMAS0, degrees, and g_scdMASD, degrees/day, both scaled by SC
MAS0_e1   == 3564
g_scdMAS0 == RDiv(MAS0_e1 * SC, 10)
MASD_e3   == 986
g_scdMASD == RDiv(MASD_e3 * SC, 1000)

\* g_scdINS, radians scaled by SC, of 23.4375 degrees; its cosine and sine
INS_e3    == 23438
g_scdINS  == radians(RDiv(INS_e3 * SC, 1000))
g_scdCNS  == Cos(g_scdINS)
g_scdSNS  == Sin(g_scdINS)

\* g_scdEQC1 and g_scdEQC2, scaled by SC
EQC1_e4   == 334
g_scdEQC1 == RDiv(EQC1_e4 * SC, 10000)
EQC2_e5   == 35
g_scdEQC2 == RDiv(EQC2_e5 * SC, 100000)

\* g_scdAU, km
g_scdAU   == 149597871

\* P13Sun::P13Sun(): the constructor sets nothing, junk is what the memory
\* of the two vectors holds
P13Sun(junk) == [c_vecSUN |-> junk.c_vecSUN, c_vecH |-> junk.c_vecH]

NoSun == [c_vecSUN |-> <<0, 0, 0>>, c_vecH |-> <<0, 0, 0>>]

\* void P13Sun::predict(p_dt). The mean anomaly of the Sun, in degrees, is
\* only used under sin(): it is kept within one turn
P13Sun_predict(u, p_dt) ==
    Only({ Only({ Only({ Only({
        [c_vecSUN |-> SUN,
         \* Obtain SUN unit vector in GEOCENTRIC coordinates
         c_vecH |-> Vec3(FSub(FMul(SUN[1], Cos(-l_dGHAE)), FMul(SUN[2], Sin(-l_dGHAE))),
                         FAdd(FMul(SUN[1], Sin(-l_dGHAE)), FMul(SUN[2], Cos(-l_dGHAE))),
                         SUN[3])] :
        \* Sun unit vector - CELESTIAL coords
        SUN \in {Vec3(Cos(l_dTAS), FMul(Sin(l_dTAS), g_scdCNS),
                      FMul(Sin(l_dTAS), g_scdSNS))} }) :
        l_dTAS \in {l_dMRSE + FMul(g_scdEQC1, Sin(l_dMASE))
                            + FMul(g_scdEQC2, Sin(2 * l_dMASE))} }) :
        l_dGHAE \in {radians(g_scdG0) + FMul(l_dT, g_scdWE)},
        l_dMRSE \in {radians(g_scdG0) + FMul(l_dT, g_scdWW) + PI},
        l_dMASE \in {radians((g_scdMAS0 + FMul(l_dT, g_scdMASD)) % (360 * SC))} }) :
        l_dT \in {(p_dt.c_lDN - fnday(g_scdYG, 1, 0)) * SC
                    + RDiv(p_dt.c_dTN * SC, TicksPerDay)} })

\* P13Sun::predict(p_dt): l_dGHAE = radians(g_scdG0) + l_dT * g_scdWE
P13Sun_GHAE(p_dt) ==
    radians(g_scdG0)
      + FMul((p_dt.c_lDN - fnday(g_scdYG, 1, 0)) * SC
                + RDiv(p_dt.c_dTN * SC, TicksPerDay), g_scdWE)

\* void P13Sun::latlon(p_dlat, p_dlon): degrees scaled by SC
P13Sun_latlon(u) ==
    [lat |-> degrees(Asin(u.c_vecH[3])),
     lon |-> degrees(Atan2(u.c_vecH[2], u.c_vecH[1]))]

\* void P13Sun::footprint(p_aipoints, p_inumberofpoints, p_ciMapMaxX,
\* p_ciMapMaxY, p_dsunlat, p_dsunlon) on the object u: the points written to
\* p_aipoints
P13Sun_footprint(u, p_inumberofpoints, p_ciMapMaxX, p_ciMapMaxY, p_dsunlat, p_dsunlon, ub) ==
    Only({ [l_ii \in 0 .. p_inumberofpoints - 1 |->
               FootprintPoint(l_dsrad, lat, lon,
                              FootprintAngle(l_ii, p_inumberofpoints),
                              p_ciMapMaxX, p_ciMapMaxY, ub)] :
           \* Radius of sunlight footprint circle
           l_dsrad \in {Acos(FDiv(g_scdRE, g_scdAU))},
           lat \in {p_dsunlat}, lon \in {p_dsunlon} })

---------------------------------------------------------------------------
(* The calendar round trip: settime on a date of the valid range, then     *)
(* gettime.                                                                *)

\* "valid 1900 Mar 01 - 2100 Feb 28"
FirstYear == 1900
LastYear  == 2100

IsLeap(y) == (y % 4 = 0 /\ y % 100 # 0) \/ y % 400 = 0

DaysIn(y, m) ==
    IF m = 2 THEN (IF IsLeap(y) THEN 29 ELSE 28)
    ELSE IF m \in {4, 6, 9, 11} THEN 30 ELSE 31

\* every calendar date from 1900-03-01 to 2100-02-28
ValidDates ==
    { d \in { <<y, m, dd>> : y \in FirstYear..LastYear, m \in 1..12, dd \in 1..31 } :
        /\ d[3] <= DaysIn(d[1], d[2])
        /\ (d[1] = FirstYear => d[2] >= 3)
        /\ (d[1] = LastYear  => d[2] <= 2) }

\* times of day the round trip is run with: <<hour, minute, second>>
TimesOfDay == { <<0, 0, 0>>, <<11, 59, 59>>, <<23, 59, 59>> }

NoCall == [op |-> "new", args |-> <<>>, pre |-> P13DateTime]
NoOut  == [year |-> 0, month |-> 0, day |-> 0, h |-> 0, m |-> 0, s |-> 0]

\* no satellite call and no Newton iteration has been made
NoHist   == [npredict |-> 0, rr |-> [set |-> FALSE]]
NoKepler == [pc |-> "idle"]

\* every time of day, run on one date
AllTimesOfDay == { <<h, m, s>> : h \in 0..23, m \in 0..59, s \in 0..59 }

InitDate ==
    /\ \/ input \in { d \o t : d \in ValidDates, t \in TimesOfDay }
       \/ input \in { <<2020, 2, 29>> \o t : t \in AllTimesOfDay }
    /\ dt = P13DateTime
    /\ call = NoCall
    /\ out = NoOut
    /\ ncalls = 0
    /\ sat = BlankSatellite /\ hist = NoHist /\ kep = NoKepler /\ sun = NoSun

D_settime ==
    /\ call.op = "new"
    /\ dt' = settime(input[1], input[2], input[3], input[4], input[5], input[6])
    /\ call' = [op |-> "settime", args |-> input, pre |-> dt]
    /\ ncalls' = ncalls + 1
    /\ UNCHANGED <<out, input, sat, hist, kep, sun>>

D_gettime ==
    /\ call.op = "settime"
    /\ out' = gettime(dt)
    /\ call' = [op |-> "gettime", args |-> <<>>, pre |-> dt]
    /\ ncalls' = ncalls + 1
    /\ UNCHANGED <<dt, input, sat, hist, kep, sun>>

NextDate == D_settime \/ D_gettime

SpecDate == InitDate /\ [][NextDate]_vars

---------------------------------------------------------------------------
(* One P13DateTime instance under any sequence of its public operations.   *)

\* the longest sequence of calls explored
MaxCalls == 3

\* arguments the calls are made with
SetDates  == { <<2020, 2, 29>>, <<2021, 12, 31>> }
SetTimes  == { <<0, 0, 0>>, <<6, 0, 0>>, <<23, 59, 59>> }
\* day offsets, in ticks: -1.5 d, -0.5 d, -1 s, 1 s, 0.25 d, 1 d
Deltas    == { -129600, -43200, -1, 1, 21600, 86400 }
\* intervals, in ticks: 1 min, 0.1 d, 0.25 d and 0.3 d (which does not divide a day)
Intervals == { 60, 8640, 21600, 25920 }

InitTime ==
    /\ dt = P13DateTime
    /\ call = NoCall
    /\ out = NoOut
    /\ input = <<>>
    /\ ncalls = 0
    /\ sat = BlankSatellite /\ hist = NoHist /\ kep = NoKepler /\ sun = NoSun

T_settime ==
    /\ ncalls < MaxCalls
    /\ \E d \in SetDates, t \in SetTimes :
         /\ dt' = settime(d[1], d[2], d[3], t[1], t[2], t[3])
         /\ call' = [op |-> "settime", args |-> d \o t, pre |-> dt]
    /\ ncalls' = ncalls + 1
    /\ UNCHANGED <<out, input, sat, hist, kep, sun>>

T_add ==
    /\ ncalls < MaxCalls
    /\ \E p_ddays \in Deltas :
         /\ dt' = add(dt, p_ddays)
         /\ call' = [op |-> "add", args |-> <<p_ddays>>, pre |-> dt]
    /\ ncalls' = ncalls + 1
    /\ UNCHANGED <<out, input, sat, hist, kep, sun>>

T_roundup ==
    /\ ncalls < MaxCalls
    /\ \E p_dtime \in Intervals :
         /\ dt' = roundup(dt, p_dtime)
         /\ call' = [op |-> "roundup", args |-> <<p_dtime>>, pre |-> dt]
    /\ ncalls' = ncalls + 1
    /\ UNCHANGED <<out, input, sat, hist, kep, sun>>

T_gettime ==
    /\ ncalls < MaxCalls
    /\ out' = gettime(dt)
    /\ call' = [op |-> "gettime", args |-> <<>>, pre |-> dt]
    /\ ncalls' = ncalls + 1
    /\ UNCHANGED <<dt, input, sat, hist, kep, sun>>

NextTime == T_settime \/ T_add \/ T_roundup \/ T_gettime

SpecTime == InitTime /\ [][NextTime]_vars

---------------------------------------------------------------------------
(* One P13Satellite instance under any sequence of its public operations.  *)

\* a C string as the sequence of its characters
Chars(str) == [i \in 1 .. Len(str) |-> SubSeq(str, i, i)]

\* element sets the satellite is built from: a low orbit of small
\* eccentricity, and a circular sun-synchronous one
TLEs ==
    { [name |-> "ISS",
       l1 |-> Chars("1 25544U 98067A   21068.12345678  .00001264  00000-0  31018-4 0  9991"),
       l2 |-> Chars("2 25544  51.6416 247.4627 0006703 130.5360 325.0288 15.48908950273456")],
      [name |-> "CIRC",
       l1 |-> Chars("1 99999U 21001A   21069.50000000  .00000100  00000-0  10000-4 0  9990"),
       l2 |-> Chars("2 99999  98.7000  10.0000 0000000  45.0000 200.0000 14.20000000 12345")] }

\* what the memory of the fields the constructor leaves unset may hold
JunkStates ==
    { [f \in StateFields |-> BlankSatellite[f]],
      [c_vecSAT |-> <<1, 2, 3>>, c_vecVEL |-> <<0, -1, 0>>,
       c_vecS |-> <<-5, 7000, 11>>, c_vecV |-> <<400, -7000, 600>>,
       cp_dRS |-> -7, cp_dRR |-> 12345] }

\* the longest sequence of calls on the satellite explored
MaxSatCalls == 3

\* the timestamps predict() is called with
PredictTimes ==
    { settime(2021, 3, 10, 0, 1, 0), settime(2021, 3, 12, 12, 0, 0) }

\* the observers elaz() is called with: latitude and longitude in degrees
\* scaled by SC, height in m
Observers ==
    { P13Observer("Munich", 48 * SC, 11 * SC, 500),
      P13Observer("Below", RDiv(-37581 * SC, 1000), RDiv(68402 * SC, 1000), 0),
      P13Observer("Null", 0, 0, 0) }

\* doppler(): the frequency, in MHz scaled by SC
Frequencies == { 2400 * SC }

\* footprint(): what a cast of NaN to int may give
UBInts == { 0, -2147483647 }
FootPoints == 4
MapMaxX == 800
MapMaxY == 400

NoSatOut == [op |-> "none"]

Init ==
    /\ \E e \in TLEs, junk \in JunkStates :
         /\ sat = P13Satellite(junk, e.name, e.l1, e.l2)
         /\ input = [name |-> e.name, junk |-> junk]
    /\ call = [op |-> "new", args |-> <<>>, pre |-> BlankSatellite,
               last |-> [op |-> "none", args |-> <<>>]]
    /\ hist = NoHist
    /\ out = NoSatOut
    /\ dt = P13DateTime
    /\ kep = NoKepler /\ sun = NoSun
    /\ ncalls = 0

\* the record of a call op(args) made on the current object
Called(op, args) ==
    [op |-> op, args |-> args, pre |-> sat,
     last |-> [op |-> call.op, args |-> call.args]]

S_tle ==
    /\ ncalls < MaxSatCalls
    /\ \E e \in TLEs :
         /\ sat' = tle(sat, e.name, e.l1, e.l2)
         /\ call' = Called("tle", <<e.name>>)
    /\ ncalls' = ncalls + 1
    /\ UNCHANGED <<out, hist, input, dt, kep, sun>>

S_predict ==
    /\ ncalls < MaxSatCalls
    /\ \E p_dt \in PredictTimes :
         \* the call returns: its Newton loop ends
         /\ PredictLocals(sat, p_dt).done
         /\ sat' = predict(sat, p_dt)
         /\ call' = Called("predict", <<p_dt>>)
    /\ hist' = [hist EXCEPT !.npredict = @ + 1]
    /\ ncalls' = ncalls + 1
    /\ UNCHANGED <<out, input, dt, kep, sun>>

S_latlon ==
    /\ ncalls < MaxSatCalls
    /\ out' = [op |-> "latlon"] @@ latlon(sat)
    /\ call' = Called("latlon", <<>>)
    /\ ncalls' = ncalls + 1
    /\ UNCHANGED <<sat, hist, input, dt, kep, sun>>

S_elaz ==
    /\ ncalls < MaxSatCalls
    /\ \E p_obs \in Observers :
         \E r \in {elaz(sat, p_obs)} :
             /\ sat' = r.sat
             /\ out' = [op |-> "elaz", el |-> r.el, az |-> r.az, du |-> r.du, dr |-> r.dr]
             /\ call' = Called("elaz", <<p_obs>>)
             /\ hist' = [hist EXCEPT !.rr = [set |-> TRUE, S |-> sat.c_vecS,
                                             V |-> sat.c_vecV, obs |-> p_obs,
                                             at |-> hist.npredict]]
    /\ ncalls' = ncalls + 1
    /\ UNCHANGED <<input, dt, kep, sun>>

S_footprint ==
    /\ ncalls < MaxSatCalls
    /\ \E ub \in UBInts, ll \in {latlon(sat)} :
             /\ out' = [op |-> "footprint",
                        points |-> footprint(sat, FootPoints, MapMaxX, MapMaxY,
                                             ll.lat, ll.lon, ub)]
             /\ call' = Called("footprint", <<FootPoints, MapMaxX, MapMaxY, ll.lat, ll.lon>>)
    /\ ncalls' = ncalls + 1
    /\ UNCHANGED <<sat, hist, input, dt, kep, sun>>

S_doppler ==
    /\ ncalls < MaxSatCalls
    /\ \E p_dfreqMHz \in Frequencies, p_bodir \in BOOLEAN :
         /\ out' = [op |-> "doppler", freq |-> doppler(sat, p_dfreqMHz, p_bodir)]
         /\ call' = Called("doppler", <<p_dfreqMHz, p_bodir>>)
    /\ ncalls' = ncalls + 1
    /\ UNCHANGED <<sat, hist, input, dt, kep, sun>>

Next == S_tle \/ S_predict \/ S_latlon \/ S_elaz \/ S_footprint \/ S_doppler

Spec == Init /\ [][Next]_vars

---------------------------------------------------------------------------
(* The Newton loop of predict(), one pass of its body at a time, from any   *)
(* eccentricity and any mean anomaly left after the whole revolutions are   *)
(* stripped.                                                                *)

\* eccentricities, scaled by SC: 0, 0.001, 0.1, 0.7, 0.95
Eccentricities ==
    { 0, RDiv(SC, 1000), RDiv(SC, 10), RDiv(7 * SC, 10), RDiv(95 * SC, 100) }

InitKepler ==
    /\ \E dEC \in Eccentricities, l_dM \in (1 - TwoPi) .. (TwoPi - 1) :
         /\ dEC = 0 \/ l_dM % 7 = 0
         /\ kep = [pc |-> "loop", EC |-> dEC, M |-> l_dM, EA |-> l_dM, D |-> 0,
                   iters |-> 0]
    /\ sat = BlankSatellite /\ hist = NoHist /\ sun = NoSun
    /\ dt = P13DateTime /\ call = NoCall /\ out = NoOut
    /\ input = <<>> /\ ncalls = 0

K_iterate ==
    /\ kep.pc = "loop"
    /\ kep.iters < MaxNewton
    /\ \E st \in {KeplerStep(kep.EC, kep.M, kep.EA)} :
           kep' = [kep EXCEPT !.EA = st.EA, !.D = st.D, !.iters = @ + 1,
                              !.pc = IF KeepGoing(st.D) THEN "loop" ELSE "done"]
    /\ UNCHANGED <<sat, hist, dt, call, out, input, ncalls, sun>>

NextKepler == K_iterate

SpecKepler == InitKepler /\ [][NextKepler]_vars

---------------------------------------------------------------------------
(* Claims *)

\* C1: for every date from 1900-03-01 to 2100-02-28 and every time of day,
\* settime followed by gettime returns the year, month, day, hour, minute and
\* second that settime was given.
C1_RoundTrip ==
    call.op = "gettime" =>
        out = [year |-> input[1], month |-> input[2], day |-> input[3],
               h |-> input[4], m |-> input[5], s |-> input[6]]

\* C1 witness: the round trip of a Feb 29 at 23:59:59
C1_Witness ==
    /\ call.op = "gettime"
    /\ input[2] = 2 /\ input[3] = 29 /\ input[4] = 23
    /\ out.month = 2 /\ out.day = 29 /\ out.s = 59

\* C2 (as claimed): in every reachable state the fractional day is in [0, 1)
C2_FractionInUnitInterval == 0 <= dt.c_dTN /\ dt.c_dTN < TicksPerDay

\* C3 (as claimed): add(delta) on (DN, TN) with 0 <= TN < 1 gives the day-number
\* DN + floor(TN + delta) and the fraction (TN + delta) - floor(TN + delta)
C3_AddFloors ==
    (call.op = "add" /\ 0 <= call.pre.c_dTN /\ call.pre.c_dTN < TicksPerDay) =>
        LET sum == call.pre.c_dTN + call.args[1]
        IN  /\ dt.c_lDN = call.pre.c_lDN + Floor(sum, TicksPerDay)
            /\ dt.c_dTN = sum - Floor(sum, TicksPerDay) * TicksPerDay

PredictOutputs(s) == [f \in StateFields \ {"cp_dRR"} |-> s[f]]

\* the object with the elements of s and none of its cached state
FromElements(s) ==
    [f \in ElementFields \cup StateFields |->
        IF f \in ElementFields THEN s[f] ELSE BlankSatellite[f]]

\* C5: predict(t) leaves the four state vectors and the cached orbital radius
\* at values that depend on the parsed elements and t only, whatever was cached
\* before; a second predict(t) right after the first leaves them as they are.
C5_PredictIdempotent ==
    call.op = "predict" =>
        /\ PredictOutputs(sat)
             = PredictOutputs(predict(FromElements(call.pre), call.args[1]))
        /\ (call.last.op = "predict" /\ call.last.args = call.args) =>
               PredictOutputs(sat) = PredictOutputs(call.pre)

\* C5 witness: the second of two predict(t) in a row, on an object whose cached
\* range-rate an earlier elaz has set
C5_Witness ==
    /\ call.op = "predict"
    /\ call.last.op = "predict" /\ call.last.args = call.args
    /\ hist.rr.set
    /\ sat.cp_dRS > g_scdRE

LastElazRangeRate ==
    IF hist.rr.set THEN RangeRate(hist.rr.S, hist.rr.V, hist.rr.obs)
    ELSE input.junk.cp_dRR

C7_QueriesLeaveVectors ==
    call.op \in {"latlon", "elaz", "footprint", "doppler"} =>
        PredictOutputs(sat) = PredictOutputs(call.pre)

\* C7 witness: an elaz call after a predict that changed the cached range-rate
C7_Witness ==
    /\ call.op = "elaz"
    /\ hist.npredict > 0
    /\ sat.cp_dRR # call.pre.cp_dRR

C9_ElazInRange ==
    (call.op = "elaz" /\ hist.npredict > 0 /\ out.dr > 0) =>
        /\ 0 <= out.az /\ out.az < 360 * SC
        /\ -90 * SC <= out.el /\ out.el <= 90 * SC

\* C10: with eccentricity 0 the Newton loop ends after one pass, its correction
\* is 0 and the eccentric anomaly is the mean anomaly.
C10_CircularOnePass ==
    (kep.pc # "idle" /\ kep.EC = 0 /\ kep.iters > 0) =>
        /\ kep.pc = "done"
        /\ kep.iters = 1
        /\ kep.D = 0
        /\ kep.EA = kep.M

\* C10 witness: the loop has ended for a circular orbit at a negative mean
\* anomaly
C10_Witness ==
    /\ kep.pc = "done"
    /\ kep.EC = 0
    /\ kep.M < -PI
    /\ kep.EA = kep.M

\* C11: the Newton loop makes at most 50 passes: a run that has made 50
\* passes is no longer looping, it has ended (converged or reported as
\* failed).
C11_IterationsCapped ==
    kep.pc = "loop" => kep.iters < 50

---------------------------------------------------------------------------
(* Single calls on a freshly built object, over wider ranges of their       *)
(* arguments than the call sequences above take.                            *)

\* predict(): the days of the timestamps, as offsets from 2021-03-09, the
\* day of the first epoch of TLEs; negative offsets are before the epoch
CalcDayOffsets == -12 .. 12
CalcTimesOfDay == { <<0, 0, 0>>, <<7, 13, 20>>, <<15, 45, 0>> }
CalcTimes ==
    { add(settime(2021, 3, 9, h[1], h[2], h[3]), d * SC) :
        d \in CalcDayOffsets, h \in CalcTimesOfDay }

CalcPredictInputs ==
    { [op |-> "predict", sat |-> P13Satellite(BlankSatellite, e.name, e.l1, e.l2),
       p_dt |-> t] : e \in TLEs, t \in CalcTimes }

\* elaz(): the object's position vector c_vecS is a public field, left unset
\* by the constructor; here it holds a point at most 1 km along each axis
\* from an observer's position, the observer's own position among them
CalcOffsets == { Vec3(x, y, z) : x, y, z \in -1 .. 1 }
CalcElazInputs ==
    { [op |-> "elaz",
       sat |-> P13Satellite(
                   [c_vecSAT |-> <<1, 2, 3>>, c_vecVEL |-> <<0, -1, 0>>,
                    c_vecS |-> Vec3(o.c_vecO[1] + d[1], o.c_vecO[2] + d[2],
                                    o.c_vecO[3] + d[3]),
                    c_vecV |-> <<400, -7000, 600>>, cp_dRS |-> -7, cp_dRR |-> 12345],
                   "ISS", e.l1, e.l2),
       p_obs |-> p_obs] :
        o \in Observers, d \in CalcOffsets, p_obs \in Observers,
        e \in {t \in TLEs : t.name = "ISS"} }

\* doppler(): the stored range-rate, km/s scaled by SC, is whatever the last
\* elaz() left or, before any, what the memory held; frequencies in MHz
\* scaled by SC
CalcRangeRates == (-40 .. 40) \cup { -7000, -1000, -125, 125, 1000, 7000 }
CalcFrequencies == { RDiv(1458 * SC, 10), 435 * SC, 2400 * SC }
CalcDopplerInputs ==
    { [op |-> "doppler",
       sat |-> P13Satellite(
                   [c_vecSAT |-> <<1, 2, 3>>, c_vecVEL |-> <<0, -1, 0>>,
                    c_vecS |-> <<-5, 7000, 11>>, c_vecV |-> <<400, -7000, 600>>,
                    cp_dRS |-> -7, cp_dRR |-> r],
                   "ISS", e.l1, e.l2),
       p_dfreqMHz |-> f] :
        r \in CalcRangeRates, f \in CalcFrequencies,
        e \in {t \in TLEs : t.name = "ISS"} }

\* latlon2xy(): the largest map width and height, and the positions in
\* degrees scaled by SC
CalcMapMax == 12
\* <<latitude, longitude>>: the centre, two corners, a point just inside
\* the corner, and points outside the range by 0.4, 0.5 and 210 degrees
CalcPositions ==
    { <<0, 0>>, <<90 * SC, -180 * SC>>, <<-90 * SC, 180 * SC>>,
      <<1 - 90 * SC, 180 * SC - 1>>,
      <<90 * SC + RDiv(4 * SC, 10), -180 * SC - RDiv(4 * SC, 10)>>,
      <<0, 180 * SC + SC \div 2>>, <<-90 * SC - SC \div 2, 0>>,
      <<300 * SC, 0>> }
CalcMapInputs ==
    { [op |-> "latlon2xy", sat |-> BlankSatellite, p_dlat |-> p[1], p_dlon |-> p[2],
       p_ciMapMaxX |-> w, p_ciMapMaxY |-> h] :
        p \in CalcPositions, w \in 0 .. CalcMapMax, h \in 0 .. CalcMapMax }

CalcInputs ==
    CalcPredictInputs \cup CalcElazInputs \cup CalcDopplerInputs \cup CalcMapInputs

InitCalc ==
    /\ input \in CalcInputs
    /\ sat = input.sat
    /\ call = [op |-> "new", args |-> <<>>]
    /\ out = NoSatOut
    /\ hist = NoHist /\ dt = P13DateTime /\ kep = NoKepler /\ sun = NoSun /\ ncalls = 0

F_predict ==
    /\ call.op = "new"
    /\ input.op = "predict"
    /\ \E l \in {PredictLocals(sat, input.p_dt)} :
         /\ l.done
         /\ sat' = predict(sat, input.p_dt)
         /\ out' = [op |-> "predict", T |-> l.T, M |-> l.M, DR |-> l.DR,
                    RN |-> l.RN, EA |-> l.EA, RS |-> l.RS]
    /\ call' = [op |-> "predict", args |-> <<input.p_dt>>]
    /\ ncalls' = ncalls + 1
    /\ UNCHANGED <<input, hist, dt, kep, sun>>

F_elaz ==
    /\ call.op = "new"
    /\ input.op = "elaz"
    /\ \E r \in {elaz(sat, input.p_obs)} :
         /\ sat' = r.sat
         /\ out' = [op |-> "elaz", el |-> r.el, az |-> r.az, du |-> r.du, dr |-> r.dr]
    /\ call' = [op |-> "elaz", args |-> <<input.p_obs>>]
    /\ ncalls' = ncalls + 1
    /\ UNCHANGED <<input, hist, dt, kep, sun>>

\* doppler(f, dir), once for each direction: out.freq[dir] is what the call
\* with p_bodir = dir returned
F_doppler ==
    /\ call.op \in {"new", "doppler"}
    /\ input.op = "doppler"
    /\ \E p_bodir \in BOOLEAN :
         /\ out.op = "doppler" => p_bodir \notin DOMAIN out.freq
         /\ out' = [op |-> "doppler",
                    freq |-> (p_bodir :> doppler(sat, input.p_dfreqMHz, p_bodir))
                             @@ (IF out.op = "doppler" THEN out.freq ELSE <<>>)]
         /\ call' = [op |-> "doppler", args |-> <<input.p_dfreqMHz, p_bodir>>]
    /\ ncalls' = ncalls + 1
    /\ UNCHANGED <<sat, input, hist, dt, kep, sun>>

F_latlon2xy ==
    /\ call.op = "new"
    /\ input.op = "latlon2xy"
    /\ out' = [op |-> "latlon2xy",
               xy |-> latlon2xy(input.p_dlat, input.p_dlon, input.p_ciMapMaxX,
                                input.p_ciMapMaxY, 0)]
    /\ call' = [op |-> "latlon2xy", args |-> <<>>]
    /\ ncalls' = ncalls + 1
    /\ UNCHANGED <<sat, input, hist, dt, kep, sun>>

NextCalc == F_predict \/ F_elaz \/ F_doppler \/ F_latlon2xy

SpecCalc == InitCalc /\ [][NextCalc]_vars

\* C12: the mean anomaly predict hands to the Newton loop lies in [0, 2 PI),
\* the whole revolutions removed from it are floor(M / 2 PI), and the orbit
\* number is the epoch revolution number plus these, also before the epoch.
C12_AnomalyReduced ==
    (call.op = "predict" /\ input.op = "predict") =>
        /\ 0 <= out.M /\ out.M < TwoPi
        /\ out.DR = Floor(out.M + out.DR * TwoPi, TwoPi)
        /\ out.RN = sat.cp_dRV + out.DR

\* C13: when the range vector has zero length, elaz returns no elevation or
\* azimuth computed from a division by zero and leaves the stored range-rate
\* as it was.
C13_ZeroRangeRejected ==
    (call.op = "elaz" /\ input.op = "elaz" /\ out.dr = 0) =>
        /\ ~IsNaN(out.el)
        /\ ~IsNaN(out.az)
        /\ sat.cp_dRR = input.sat.cp_dRR

\* what doppler(f, P13_FRX) and doppler(f, P13_FTX) returned, once both
\* calls have been made
BothDirections == input.op = "doppler" /\ out.op = "doppler" /\ DOMAIN out.freq = BOOLEAN
RXfreq == out.freq[FALSE]
TXfreq == out.freq[TRUE]

C15_CentreAndCorner ==
    (call.op = "latlon2xy" /\ input.op = "latlon2xy") =>
        /\ (input.p_dlat = 0 /\ input.p_dlon = 0) =>
               out.xy = <<input.p_ciMapMaxX \div 2, input.p_ciMapMaxY \div 2>>
        /\ (input.p_dlat = 90 * SC /\ input.p_dlon = -180 * SC) =>
               out.xy = <<0, 0>>

\* C15 witness: the centre of a map of odd width and height
C15_Witness ==
    /\ call.op = "latlon2xy" /\ input.op = "latlon2xy"
    /\ input.p_dlat = 0 /\ input.p_dlon = 0
    /\ input.p_ciMapMaxX = 7 /\ input.p_ciMapMaxY = 5
    /\ out.xy = <<3, 2>>

---------------------------------------------------------------------------
(* Footprints of a satellite and of the Sun. The caller keeps a latitude    *)
(* and a longitude (input.lat, input.lon): latlon() of either object writes *)
(* them, footprint() of either object reads them.                           *)

\* the longest sequence of calls explored
MaxFootCalls == 4

\* the point counts footprint() is called with
FootCounts == { 0, FootPoints }

\* what the memory of a P13Sun may hold before predict()
SunJunkStates == { NoSun, [c_vecSUN |-> <<1, 2, 3>>, c_vecH |-> <<600, 0, 800>>] }

NoFootHist == [npredict |-> 0, rs |-> [set |-> FALSE]]

InitFoot ==
    /\ \E e \in {t \in TLEs : t.name = "ISS"}, junk \in {j \in JunkStates : j.cp_dRS # 0} :
         sat = P13Satellite(junk, e.name, e.l1, e.l2)
    /\ \E junk \in SunJunkStates : sun = P13Sun(junk)
    /\ input = [lat |-> 48 * SC, lon |-> 11 * SC]
    /\ call = [op |-> "new", args |-> <<>>]
    /\ hist = NoFootHist
    /\ out = NoSatOut
    /\ dt = P13DateTime /\ kep = NoKepler /\ ncalls = 0

P_predict ==
    /\ ncalls < MaxFootCalls
    /\ \E p_dt \in PredictTimes :
         /\ PredictLocals(sat, p_dt).done
         /\ sat' = predict(sat, p_dt)
         /\ call' = [op |-> "predict", args |-> <<p_dt>>]
         /\ hist' = [npredict |-> hist.npredict + 1,
                     rs |-> [set |-> TRUE, RS |-> PredictLocals(sat, p_dt).RS,
                             at |-> p_dt]]
    /\ ncalls' = ncalls + 1
    /\ UNCHANGED <<out, input, dt, kep, sun>>

P_latlon ==
    /\ ncalls < MaxFootCalls
    /\ input' = latlon(sat)
    /\ call' = [op |-> "latlon", args |-> <<>>]
    /\ ncalls' = ncalls + 1
    /\ UNCHANGED <<sat, out, hist, dt, kep, sun>>

P_footprint ==
    /\ ncalls < MaxFootCalls
    /\ \E n \in FootCounts, ub \in UBInts :
         /\ out' = [op |-> "footprint", who |-> "sat",
                    points |-> footprint(sat, n, MapMaxX, MapMaxY,
                                         input.lat, input.lon, ub)]
         /\ call' = [op |-> "footprint", args |-> <<n, ub>>]
    /\ ncalls' = ncalls + 1
    /\ UNCHANGED <<sat, input, hist, dt, kep, sun>>

U_predict ==
    /\ ncalls < MaxFootCalls
    /\ \E p_dt \in PredictTimes :
         /\ sun' = P13Sun_predict(sun, p_dt)
         /\ call' = [op |-> "sunpredict", args |-> <<p_dt>>]
    /\ ncalls' = ncalls + 1
    /\ UNCHANGED <<sat, out, input, hist, dt, kep>>

U_latlon ==
    /\ ncalls < MaxFootCalls
    /\ input' = P13Sun_latlon(sun)
    /\ call' = [op |-> "sunlatlon", args |-> <<>>]
    /\ ncalls' = ncalls + 1
    /\ UNCHANGED <<sat, sun, out, hist, dt, kep>>

U_footprint ==
    /\ ncalls < MaxFootCalls
    /\ \E n \in FootCounts, ub \in UBInts :
         /\ out' = [op |-> "footprint", who |-> "sun",
                    points |-> P13Sun_footprint(sun, n, MapMaxX, MapMaxY,
                                                input.lat, input.lon, ub)]
         /\ call' = [op |-> "footprint", args |-> <<n, ub>>]
    /\ ncalls' = ncalls + 1
    /\ UNCHANGED <<sat, sun, input, hist, dt, kep>>

NextFoot ==
    P_predict \/ P_latlon \/ P_footprint \/ U_predict \/ U_latlon \/ U_footprint

SpecFoot == InitFoot /\ [][NextFoot]_vars

\* the state right after a footprint() call with point count FootN
AfterFootprint == call.op = "footprint" /\ out.op = "footprint"
FootN == call.args[1]

\* the angular radius of the footprint circle of the call just made
FootRadius ==
    IF out.who = "sat" THEN Acos(FDiv(g_scdRE, sat.cp_dRS))
    ELSE Acos(FDiv(g_scdRE, g_scdAU))

\* C16: footprint with point count N writes exactly the entries 0..N-1,
\* entry i from the circle angle 2 PI i / N, so that consecutive entries are
\* 2 PI / N apart (to the resolution); with N = 0 it writes nothing and
\* divides by nothing. For the satellite and for the Sun.
C16_ExactlyNPoints ==
    AfterFootprint =>
        /\ DOMAIN out.points = 0 .. FootN - 1
        /\ \A i \in 0 .. FootN - 1 :
             out.points[i] =
                 FootprintPoint(FootRadius, input.lat, input.lon,
                                RDiv(TwoPi * i, FootN), MapMaxX, MapMaxY, call.args[2])
        /\ \A i \in 0 .. FootN - 2 :
             Abs(RDiv(TwoPi * (i + 1), FootN) - RDiv(TwoPi * i, FootN)
                   - RDiv(TwoPi, FootN)) <= 1

\* C16 witness: a Sun footprint of FootPoints different points, and before
\* it in the same run nothing that would have left more entries
C16_Witness ==
    /\ AfterFootprint
    /\ out.who = "sun"
    /\ FootN = FootPoints
    /\ \A i, j \in DOMAIN out.points : i # j => out.points[i] # out.points[j]

\* the points of a circle of angular radius l_dsrad around the latitude and
\* longitude the call just made was given
CircleOfRadius(l_dsrad) ==
    [i \in 0 .. FootN - 1 |->
        FootprintPoint(l_dsrad, input.lat, input.lon, FootprintAngle(i, FootN),
                       MapMaxX, MapMaxY, call.args[2])]

\* C17: the satellite footprint has the angular radius arccos(RE / RS) with
\* the RS stored by the most recent predict(), whatever predict() the
\* latitude and longitude came from; the Sun footprint has arccos(RE / 1 AU)
\* and is the same whatever the state of the P13Sun object.
C17_FootprintRadius ==
    AfterFootprint =>
        /\ (out.who = "sat" /\ hist.rs.set) =>
               out.points = CircleOfRadius(Acos(FDiv(g_scdRE, hist.rs.RS)))
        /\ out.who = "sun" =>
               out.points = CircleOfRadius(Acos(FDiv(g_scdRE, g_scdAU)))

\* C17 witness: a satellite footprint drawn after a second predict(), around
\* the latitude and longitude of the first, whose orbital radius was another
C17_Witness ==
    /\ AfterFootprint
    /\ out.who = "sat"
    /\ FootN = FootPoints
    /\ hist.npredict = 2
    /\ \E t \in PredictTimes :
         /\ t # hist.rs.at
         /\ input = latlon(predict(sat, t))
         /\ PredictLocals(sat, t).RS # hist.rs.RS

---------------------------------------------------------------------------
(* tle() on element lines whose fixed columns hold every two-digit year,    *)
(* the days of the year, and texts that are not numbers.                    *)

DigitChar(d) == CHOOSE c \in DOMAIN DigitOf : DigitOf[c] = d
Digits2(n) == <<DigitChar(n \div 10), DigitChar(n % 10)>>
Digits3(n) == <<DigitChar(n \div 100), DigitChar((n \div 10) % 10), DigitChar(n % 10)>>

\* the line with text written over its columns i0, i0 + 1, ... (from 0)
Overwrite(line, i0, text) ==
    [i \in 1 .. Len(line) |->
        IF i > i0 /\ i <= i0 + Len(text) THEN text[i - i0] ELSE line[i]]

BaseLines == Only({ e \in TLEs : e.name = "ISS" })

\* the year a two-digit year of an element set stands for
FullYear(yy) == IF yy < 58 THEN 2000 + yy ELSE 1900 + yy

\* the month and day of the n-th day of the year Y, counted from month m
RECURSIVE NthDayFrom(_, _, _)
NthDayFrom(Y, m, n) ==
    IF n <= DaysIn(Y, m) THEN <<m, n>> ELSE NthDayFrom(Y, m + 1, n - DaysIn(Y, m))

\* the digits of the fraction of the epoch day, and the ticks they stand for
\* (whole ticks below a day)
EpochFractions ==
    { [text |-> Chars("00000000"), ticks |-> 0],
      [text |-> Chars("12345678"), ticks |-> 10667],
      [text |-> Chars("50000000"), ticks |-> 43200],
      [text |-> Chars("99999999"), ticks |-> 86399] }

\* the years whose every day is taken; of the others the days around the end
\* of February and the ends of the year
FullYears == { 0, 20, 21, 57, 58 }
EdgeDays == { 1, 59, 60, 61, 365, 366 }

TleEpochInputs ==
    { [op |-> "epoch", yy |-> r[1], n |-> r[2], f |-> r[3],
       l1 |-> Overwrite(BaseLines.l1, 18,
                        Digits2(r[1]) \o Digits3(r[2]) \o <<".">> \o r[3].text),
       l2 |-> BaseLines.l2] :
        r \in { q \in (0 .. 99) \X (1 .. 366) \X EpochFractions :
                  /\ q[2] <= (IF IsLeap(FullYear(q[1])) THEN 366 ELSE 365)
                  /\ (q[1] \in FullYears /\ q[3].ticks = 10667) \/ q[2] \in EdgeDays } }

\* texts that are no numbers, the field they are written to (line, first
\* column, name of the member that takes it) and the value of the longest
\* prefix that reads as a number (scaled by SC for the fields in degrees)
BrokenFields ==
    { [line |-> 2, col |-> 8,  text |-> Chars(" 51.6x16"), field |-> "cp_dIN", prefix |-> RDiv(516 * SC, 10)],
      [line |-> 2, col |-> 8,  text |-> Chars(" 5 1.641"), field |-> "cp_dIN", prefix |-> 5 * SC],
      [line |-> 2, col |-> 8,  text |-> Chars(" abcdefg"), field |-> "cp_dIN", prefix |-> 0],
      [line |-> 1, col |-> 2,  text |-> Chars("25X44"),    field |-> "cp_lN",  prefix |-> 25],
      [line |-> 2, col |-> 63, text |-> Chars("2 345"),    field |-> "cp_dRV", prefix |-> 2],
      [line |-> 2, col |-> 63, text |-> Chars("-12b4"),    field |-> "cp_dRV", prefix |-> -12],
      [line |-> 2, col |-> 63, text |-> Chars("     "),    field |-> "cp_dRV", prefix |-> 0],
      [line |-> 2, col |-> 17, text |-> Chars("247.46.7"), field |-> "cp_dRA", prefix |-> RDiv(24746 * SC, 100)],
      [line |-> 2, col |-> 43, text |-> Chars("+25.0 88"), field |-> "cp_dMA", prefix |-> 25 * SC],
      [line |-> 2, col |-> 34, text |-> Chars("13O.5360"), field |-> "cp_dWP", prefix |-> 13 * SC] }

TleBrokenInputs ==
    { [op |-> "broken", b |-> b,
       l1 |-> IF b.line = 1 THEN Overwrite(e.l1, b.col, b.text) ELSE e.l1,
       l2 |-> IF b.line = 2 THEN Overwrite(e.l2, b.col, b.text) ELSE e.l2] :
        b \in BrokenFields, e \in TLEs }

\* numbers outside the range of an orbit, written to the eccentricity
\* (columns 26..32) and the mean motion (columns 52..62) of line 2
OutOfRangeFields ==
    { [col |-> 52, text |-> Chars("00.00000000")],
      [col |-> 52, text |-> Chars("           ")],
      [col |-> 52, text |-> Chars("-15.4890895")],
      [col |-> 26, text |-> Chars("-123456")] }

TleRangeInputs ==
    { [op |-> "range", b |-> b, l1 |-> e.l1, l2 |-> Overwrite(e.l2, b.col, b.text)] :
        b \in OutOfRangeFields, e \in TLEs }

InitTle ==
    /\ input \in TleEpochInputs \cup TleBrokenInputs \cup TleRangeInputs
    /\ \E junk \in {j \in JunkStates : j.cp_dRS # 0} :
         sat = P13Satellite(junk, BaseLines.name, BaseLines.l1, BaseLines.l2)
    /\ call = [op |-> "new", args |-> <<>>]
    /\ out = NoSatOut
    /\ hist = NoHist /\ dt = P13DateTime /\ kep = NoKepler /\ sun = NoSun /\ ncalls = 0

\* tle() on the lines of the input: it always returns
T_tle ==
    /\ call.op = "new"
    /\ sat' = tle(sat, "x", input.l1, input.l2)
    /\ call' = [op |-> "tle", args |-> <<>>]
    /\ ncalls' = ncalls + 1
    /\ UNCHANGED <<input, out, hist, dt, kep, sun>>

NextTle == T_tle

SpecTle == InitTle /\ [][NextTle]_vars

\* C18: for every two-digit year yy in 0..99 of line 1, tle() stores the
\* epoch year 2000 + yy when yy < 58 and 1900 + yy otherwise, a year of
\* 1958..2057.
C18_EpochYear ==
    (call.op = "tle" /\ input.op = "epoch") =>
        /\ sat.cp_lYE = (IF input.yy < 58 THEN 2000 + input.yy ELSE 1900 + input.yy)
        /\ sat.cp_lYE \in 1958 .. 2057

\* C18 witness: the last year of the 2000s, 57
C18_Witness ==
    /\ call.op = "tle" /\ input.op = "epoch"
    /\ input.yy = 57
    /\ sat.cp_lYE = 2057

\* C19: the epoch day-number tle() stores for the day n of the year Y is the
\* day-number settime gives the calendar date of that day, and the stored
\* fraction is the fraction f of the epoch day, 0 <= f < 1.
C19_EpochDayNumber ==
    (call.op = "tle" /\ input.op = "epoch") =>
        \E md \in {NthDayFrom(FullYear(input.yy), 1, input.n)} :
            /\ sat.cp_lDE = settime(FullYear(input.yy), md[1], md[2], 0, 0, 0).c_lDN
            /\ sat.cp_dTE = input.f.ticks
            /\ 0 <= sat.cp_dTE /\ sat.cp_dTE < TicksPerDay

\* C19 witness: day 60 of the leap year 2020, 29 February, late in the day
C19_Witness ==
    /\ call.op = "tle" /\ input.op = "epoch"
    /\ input.yy = 20 /\ input.n = 60
    /\ sat.cp_lDE = settime(2020, 2, 29, 0, 0, 0).c_lDN
    /\ sat.cp_dTE = 86399

\* the value tle() stores in the member a broken text was written for, had
\* the text read as the number v
StoredFor(v) ==
    IF input.b.field \in {"cp_lN", "cp_dRV"} THEN v ELSE radians(v)

C21_ElementsInRange ==
    call.op = "tle" =>
        /\ 0 <= sat.cp_dEC /\ sat.cp_dEC < SC
        /\ sat.cp_dMM > 0
        /\ ~IsNaN(sat.cp_dA_0) /\ ~IsNaN(sat.cp_dB_0) /\ ~IsNaN(sat.cp_dDC)

(***************************************************************************)
(* The two class families.  AioP13.cpp and ArduinoP13.cpp are the same     *)
(* statements with renamed variables; the headers differ in the tropical   *)
(* year g_scdYT / YT, from which both compute the rotation rates           *)
(* WW = 2 PI / YT and WE = 2 PI + WW.  The difference is below the         *)
(* resolution SC, so the rates are kept here at 1e-12 rad/day, as the      *)
(* excess over 0.0172027 rad/day.                                          *)
(***************************************************************************)
Families == {"AioP13", "ArduinoP13"}

\* g_scdYT = 365.2421896698 and YT = 365.2421874: the excess over 365.242
\* days, in 1e-10 days
YT_x10(fam) == IF fam = "AioP13" THEN 1896698 ELSE 1874000

\* 2 PI / 365.242 - 0.0172027, in 1e-12 rad/day
WWBase_x12 == 100629

\* 2 PI / 365.242^2, in 1e-9 rad/day per day: how 2 PI / YT falls with YT
WWSlope_e9 == 47099

\* WW = 2.0 * PI / YT, as the excess over 0.0172027 in 1e-12 rad/day
WW_x12(fam) == WWBase_x12 - RDiv(RDiv(YT_x10(fam), 100) * WWSlope_e9, 100000)

\* GHAE = radians(G0) + T * WE with T = (DN - fnday(YG, 1, 0)) + TN, of
\* P13Sun::predict and (with the epoch as origin) of P13Satellite::predict:
\* the term T * (WW - 0.0172027) of it, in 1e-12 rad.  The other terms,
\* radians(G0) + T * (2 PI + 0.0172027), are the same numbers in both families.
GHAE_x12(fam, p_dt) ==
    Only({ (p_dt.c_lDN - fnday(g_scdYG, 1, 0)) * w
             + RDiv(RDiv(p_dt.c_dTN * SC, TicksPerDay) * w, SC) :
           w \in {WW_x12(fam)} })

InitFamily ==
    /\ input \in { [op |-> "predict", p_dt |-> t] : t \in CalcTimes }
    /\ sun = P13Sun(NoSun)
    /\ call = [op |-> "new", args |-> <<>>]
    /\ out = NoSatOut
    /\ sat = BlankSatellite
    /\ hist = NoHist /\ dt = P13DateTime /\ kep = NoKepler /\ ncalls = 0

\* P13Sun::predict(p_dt) of each family on the same timestamp
Y_predict ==
    /\ call.op = "new"
    /\ sun' = P13Sun_predict(sun, input.p_dt)
    /\ out' = [op |-> "predict",
               YT |-> [f \in Families |-> YT_x10(f)],
               GHAE |-> [f \in Families |-> GHAE_x12(f, input.p_dt)]]
    /\ call' = [op |-> "predict", args |-> <<input.p_dt>>]
    /\ ncalls' = ncalls + 1
    /\ UNCHANGED <<input, sat, hist, dt, kep>>

NextFamily == Y_predict

SpecFamily == InitFamily /\ [][NextFamily]_vars

\* C23: the AioP13 and the ArduinoP13 family use the same tropical year (and
\* so the same rotation rates WW, WE, W0) and produce identical results for
\* the same operations on the same arguments.
C23_FamiliesAgree ==
    call.op = "predict" =>
        /\ out.YT["AioP13"] = out.YT["ArduinoP13"]
        /\ out.GHAE["AioP13"] = out.GHAE["ArduinoP13"]

(***************************************************************************)
(* fnday on each calendar date and on the date that follows it.            *)
(***************************************************************************)
\* the calendar date after <<year, month, day>>
Tomorrow(d) ==
    IF d[3] < DaysIn(d[1], d[2]) THEN <<d[1], d[2], d[3] + 1>>
    ELSE IF d[2] < 12 THEN <<d[1], d[2] + 1, 1>>
    ELSE <<d[1] + 1, 1, 1>>

InitDays ==
    /\ input \in ValidDates \ {<<LastYear, 2, 28>>}
    /\ dt = P13DateTime
    /\ call = NoCall
    /\ out = NoOut
    /\ ncalls = 0
    /\ sat = BlankSatellite /\ hist = NoHist /\ kep = NoKepler /\ sun = NoSun

\* fnday(y, m, d) of the date and of the next date
N_fnday ==
    /\ call.op = "new"
    /\ \E n \in {Tomorrow(input)} :
         out' = [op |-> "fnday", today |-> fnday(input[1], input[2], input[3]),
                 next |-> n, tomorrow |-> fnday(n[1], n[2], n[3])]
    /\ call' = [op |-> "fnday", args |-> input]
    /\ ncalls' = ncalls + 1
    /\ UNCHANGED <<input, dt, sat, hist, kep, sun>>

NextDays == N_fnday

SpecDays == InitDays /\ [][NextDays]_vars

\* C24: for every two consecutive calendar dates from 1900-03-01 to
\* 2100-02-28 the day-number of the later one is the day-number of the
\* earlier one plus exactly 1.
C24_ConsecutiveDays ==
    call.op = "fnday" => out.tomorrow = out.today + 1

\* the step from 28 to 29 February of a leap year has been taken
C24_Witness ==
    /\ call.op = "fnday"
    /\ input = <<2020, 2, 28>>
    /\ out.next = <<2020, 2, 29>>
    /\ out.tomorrow = out.today + 1

(***************************************************************************)
(* The Newton loop of predict() at the resolution 1/(SC*SC).  The loop     *)
(* ends on a correction of at most 1.0E-5, which at the resolution 1/SC is *)
(* a correction of 0; here it is a number of up to ten units, so that the  *)
(* last correction and what it changes can be told apart.                  *)
(***************************************************************************)
KSC == SC * SC

\* a * b / KSC for a, b >= 0, the product taken in parts that stay in 32 bits
SplitMul(a, b) ==
    Only({ (x \div SC) * (y \div SC)
             + RDiv((x \div SC) * (y % SC) + (x % SC) * (y \div SC)
                       + RDiv((x % SC) * (y % SC), SC), SC) :
           x \in {a}, y \in {b} })

\* a * b of two doubles scaled by KSC
MulK(a, b) ==
    Only({ (IF (x >= 0) = (y >= 0) THEN 1 ELSE -1) * SplitMul(Abs(x), Abs(y)) :
           x \in {a}, y \in {b} })

\* a / b of two doubles scaled by KSC, b > 0, the quotient taken in two parts
DivK(a, b) ==
    Only({ (IF x >= 0 THEN 1 ELSE -1)
             * Only({ (n \div y) * SC + ((n % y) * SC) \div y : n \in {Abs(x) * SC} }) :
           x \in {a}, y \in {b} })

\* PI = 3.141593, scaled by KSC
PIK == 3 * KSC + RDiv(RDiv(141593 * SC, 1000) * SC, 1000)

\* sin on [0, PI/2]: the Taylor polynomial to x^13
SinQK(x) ==
    Only({ Only({ Only({ Only({ Only({ Only({ Only({ MulK(v, t0) :
        t0 \in {KSC - MulK(RDiv(x2, 6), t1)} }) :
        t1 \in {KSC - MulK(RDiv(x2, 20), t2)} }) :
        t2 \in {KSC - MulK(RDiv(x2, 42), t3)} }) :
        t3 \in {KSC - MulK(RDiv(x2, 72), t4)} }) :
        t4 \in {KSC - MulK(RDiv(x2, 110), KSC - RDiv(x2, 156))} }) :
        x2 \in {MulK(v, v)} }) :
        v \in {x} })

\* sin(x) and cos(x), x in radians scaled by KSC
SinK(x) ==
    Only({ IF r <= PIK \div 2 THEN SinQK(r)
           ELSE IF r <= PIK THEN SinQK(PIK - r)
           ELSE IF r <= PIK + PIK \div 2 THEN -SinQK(r - PIK)
           ELSE -SinQK(2 * PIK - r) :
           r \in {x % (2 * PIK)} })

CosK(x) == SinK(x + PIK \div 2)

\* while (fabs(l_dD) > 1.0E-5), l_dD scaled by KSC
KeepGoingK(l_dD) == Abs(l_dD) > KSC \div TolInv

\* one pass through the body of the do-while of predict(): the locals after it
NewtonPass(dEC, l_dM, l_dEA) ==
    Only({ Only({ [C_EA |-> l_dC_EA, S_EA |-> l_dS_EA, DNOM |-> l_dDNOM, D |-> l_dD,
                   \* by this amount
                   EA |-> l_dEA - l_dD] :
                  \* Change to EA for better solution
                  l_dD \in {DivK(l_dEA - MulK(dEC, l_dS_EA) - l_dM, l_dDNOM)} }) :
           l_dC_EA \in {CosK(l_dEA)},
           l_dS_EA \in {SinK(l_dEA)},
           l_dDNOM \in {KSC - MulK(dEC, CosK(l_dEA))} })

\* the mean anomalies the loop is started from: 64 steps around the circle
NewtonAnomalies == { (k * 2 * PIK) \div 64 : k \in 0 .. 63 }

\* eccentricities, scaled by KSC: 0, 0.0006703 (the ISS), 0.1, 0.7
NewtonEccentricities == { 0, RDiv(6703 * SC, 10000), KSC \div 10, 7 * (KSC \div 10) }

InitNewton ==
    /\ \E dEC \in NewtonEccentricities, l_dM \in NewtonAnomalies :
         \* Initial solution
         kep = [pc |-> "loop", EC |-> dEC, M |-> l_dM, EA |-> l_dM,
                C_EA |-> 0, S_EA |-> 0, DNOM |-> 0, D |-> 0, iters |-> 0]
    /\ sat = BlankSatellite /\ hist = NoHist /\ sun = NoSun
    /\ dt = P13DateTime /\ call = NoCall /\ out = NoOut
    /\ input = <<>> /\ ncalls = 0

W_iterate ==
    /\ kep.pc = "loop"
    /\ kep.iters < MaxNewton
    /\ \E st \in {NewtonPass(kep.EC, kep.M, kep.EA)} :
           kep' = [kep EXCEPT !.EA = st.EA, !.D = st.D, !.C_EA = st.C_EA,
                              !.S_EA = st.S_EA, !.DNOM = st.DNOM, !.iters = @ + 1,
                              !.pc = IF KeepGoingK(st.D) THEN "loop" ELSE "done"]
    /\ UNCHANGED <<sat, hist, dt, call, out, input, ncalls, sun>>

NextNewton == W_iterate

SpecNewton == InitNewton /\ [][NextNewton]_vars

\* C25: the cos E, sin E and 1 - e cos E that predict() uses after the Newton
\* loop, for the position, the velocity and the radius RS in the orbital
\* plane, are those of the final iterate of E, the value after the last
\* correction was applied.
C25_ValuesOfFinalIterate ==
    kep.pc = "done" =>
        /\ kep.C_EA = CosK(kep.EA)
        /\ kep.S_EA = SinK(kep.EA)
        /\ kep.DNOM = KSC - MulK(kep.EC, CosK(kep.EA))

(***************************************************************************)
(* The observer: the constructor on a grid of latitudes and longitudes.    *)
(***************************************************************************)
\* degrees between two grid points
GridStep == 15

\* latitudes -90 .. 90 and longitudes -180 .. 180 degrees, scaled by SC
GridLatitudes  == { k * GridStep * SC : k \in -(90 \div GridStep) .. (90 \div GridStep) }
GridLongitudes == { k * GridStep * SC : k \in -(180 \div GridStep) .. (180 \div GridStep) }

InitObserver ==
    /\ input \in { [lat |-> la, lon |-> lo, asl |-> h] :
                     la \in GridLatitudes \cup {48 * SC},
                     lo \in GridLongitudes \cup {11 * SC}, h \in {0, 500} }
    /\ call = [op |-> "new", args |-> <<>>]
    /\ out = NoSatOut
    /\ sat = BlankSatellite
    /\ hist = NoHist /\ dt = P13DateTime /\ kep = NoKepler /\ sun = NoSun /\ ncalls = 0

\* P13Observer o(name, lat, lon, asl)
O_construct ==
    /\ call.op = "new"
    /\ out' = [op |-> "P13Observer",
               obs |-> P13Observer("x", input.lat, input.lon, input.asl)]
    /\ call' = [op |-> "P13Observer", args |-> <<input.lat, input.lon, input.asl>>]
    /\ ncalls' = ncalls + 1
    /\ UNCHANGED <<input, sat, hist, dt, kep, sun>>

NextObserver == O_construct

SpecObserver == InitObserver /\ [][NextObserver]_vars

\* how far a sum of three rounded products may be from its exact value, in
\* units of 1/SC
RoundTol == 2

\* a . b is 0 up to rounding
Orthogonal(a, b) == Abs(Dot3(a, b)) <= RoundTol

\* |a| is 1 up to rounding
UnitLength(a) == Abs(Dot3(a, a) - SC) <= RoundTol

\* C26: for every latitude and longitude the observer's Up, East and North
\* vectors are mutually orthogonal unit vectors, and its velocity vector has
\* z component 0 and no component along Up; the equalities are those of
\* exact arithmetic, which the stored numbers meet to within their rounding.
C26_OrthonormalFrame ==
    call.op = "P13Observer" =>
        /\ Orthogonal(out.obs.c_vecU, out.obs.c_vecE)
        /\ Orthogonal(out.obs.c_vecU, out.obs.c_vecN)
        /\ Orthogonal(out.obs.c_vecE, out.obs.c_vecN)
        /\ UnitLength(out.obs.c_vecU)
        /\ UnitLength(out.obs.c_vecE)
        /\ UnitLength(out.obs.c_vecN)
        /\ out.obs.c_vecV[3] = 0
        /\ Orthogonal(out.obs.c_vecV, out.obs.c_vecU)

\* the observer at 48 N, 11 E has been constructed: its frame is tilted
\* against all three axes and it moves eastward
C26_Witness ==
    /\ call.op = "P13Observer"
    /\ input.lat = 48 * SC /\ input.lon = 11 * SC
    /\ out.obs.c_vecU[1] > 0 /\ out.obs.c_vecU[2] > 0 /\ out.obs.c_vecU[3] > 0
    /\ out.obs.c_vecV[2] > 0

(***************************************************************************)
(* The satellite and the Sun predicted for the same timestamp, the element *)
(* set having one of several epochs.                                       *)
(***************************************************************************)
\* epochs <<two-digit year, day of the year>>
AngleEpochs == ({20} \X {1, 60, 366}) \cup ({21} \X {1, 59, 60, 68, 200, 365})

AngleTimes ==
    { add(settime(2021, 3, 9, h[1], h[2], h[3]), d * SC) :
        d \in {-12, 0, 12}, h \in CalcTimesOfDay }

AngleInputs ==
    { [op |-> "angle", p_dt |-> t, l2 |-> BaseLines.l2,
       l1 |-> Overwrite(BaseLines.l1, 18,
                        Digits2(e[1]) \o Digits3(e[2]) \o <<".">> \o f.text)] :
        e \in AngleEpochs, f \in EpochFractions, t \in AngleTimes }

InitAngle ==
    /\ input \in AngleInputs
    /\ sat = P13Satellite(BlankSatellite, "x", input.l1, input.l2)
    /\ sun = P13Sun(NoSun)
    /\ call = [op |-> "new", args |-> <<>>]
    /\ out = NoSatOut
    /\ hist = NoHist /\ dt = P13DateTime /\ kep = NoKepler /\ ncalls = 0

\* sat.predict(p_dt): out.GHAA is l_dGHAA at the end of the call
A_predict ==
    /\ call.op = "new"
    /\ \E l \in {PredictLocals(sat, input.p_dt)} :
         /\ l.done
         /\ sat' = predict(sat, input.p_dt)
         /\ out' = [op |-> "predict", T |-> l.T, GHAA |-> l.GHAA]
    /\ call' = [op |-> "predict", args |-> <<input.p_dt>>]
    /\ ncalls' = ncalls + 1
    /\ UNCHANGED <<input, hist, dt, kep, sun>>

\* sun.predict(p_dt) after it: out.GHAE is l_dGHAE of P13Sun::predict
A_sunpredict ==
    /\ call.op = "predict"
    /\ sun' = P13Sun_predict(sun, input.p_dt)
    /\ out' = [op |-> "sunpredict", T |-> out.T, GHAA |-> out.GHAA,
               GHAE |-> P13Sun_GHAE(input.p_dt)]
    /\ call' = [op |-> "sunpredict", args |-> <<input.p_dt>>]
    /\ ncalls' = ncalls + 1
    /\ UNCHANGED <<input, hist, dt, kep, sat>>

NextAngle == A_predict \/ A_sunpredict

SpecAngle == InitAngle /\ [][NextAngle]_vars

\* what the roundings of the epoch fraction, of the elapsed time and of the
\* products with WE may add up to, in units of 1/SC rad
AngleTol == 10

\* C27: for every timestamp and every epoch of the element set, the hour
\* angle by which P13Satellite::predict turns celestial into geocentric
\* coordinates is the one P13Sun::predict uses for that timestamp,
\* G0 + WE * ((DN - fnday(YG, 1, 0)) + TN), up to rounding: the epoch cancels.
C27_SameHourAngle ==
    call.op = "sunpredict" => Abs(out.GHAA - out.GHAE) <= AngleTol

\* both have been predicted for a time before the epoch of the element set,
\* which lies in the middle of a day
C27_Witness ==
    /\ call.op = "sunpredict"
    /\ out.T < 0
    /\ sat.cp_dTE = 43200
    /\ Abs(out.GHAA - out.GHAE) <= AngleTol

\* the position is within latitude -90 .. 90 and longitude -180 .. 180
InLatLonRange(p_dlat, p_dlon) ==
    /\ -90 * SC <= p_dlat /\ p_dlat <= 90 * SC
    /\ -180 * SC <= p_dlon /\ p_dlon <= 180 * SC

\* the pixel pair is within [0, W] x [0, H]
OnMap(xy, W, H) == 0 <= xy[1] /\ xy[1] <= W /\ 0 <= xy[2] /\ xy[2] <= H

\* C28: for W > 0 and H > 0, latlon2xy maps a position within range to a
\* pixel pair within [0, W] x [0, H], with x = W exactly for longitude 180
\* and y = H exactly for latitude -90, and a position outside the range to
\* a pixel pair outside it.
C28_InsideExactlyWhenInRange ==
    (call.op = "latlon2xy" /\ input.p_ciMapMaxX > 0 /\ input.p_ciMapMaxY > 0) =>
        IF InLatLonRange(input.p_dlat, input.p_dlon)
        THEN /\ OnMap(out.xy, input.p_ciMapMaxX, input.p_ciMapMaxY)
             /\ (out.xy[1] = input.p_ciMapMaxX) = (input.p_dlon = 180 * SC)
             /\ (out.xy[2] = input.p_ciMapMaxY) = (input.p_dlat = -90 * SC)
        ELSE ~OnMap(out.xy, input.p_ciMapMaxX, input.p_ciMapMaxY)

\* C29: add(delta) moves the instant DN + TN by exactly delta, whatever the
\* sign of delta and of the fraction before and after: the days that go to
\* DN are the days that leave TN.
C29_AddConservesInstant ==
    call.op = "add" =>
        (dt.c_lDN - call.pre.c_lDN) * TicksPerDay + (dt.c_dTN - call.pre.c_dTN)
            = call.args[1]

\* a negative delta has taken the timestamp back across midnight and left a
\* negative fraction
C29_Witness ==
    /\ call.op = "add"
    /\ call.args[1] < 0
    /\ dt.c_lDN < call.pre.c_lDN
    /\ dt.c_dTN < 0

(***************************************************************************)
(* predict() in the order of its assignments to the fields, one P13Satel-  *)
(* lite and a reader of its public vectors.  The reader is not             *)
(* synchronised with the call: what it finds in a field that the call has  *)
(* assigned is the assigned value or, if the build has not stored it yet,  *)
(* the value from before the call.                                         *)
(***************************************************************************)
\* predict() up to the plane coordinates, without the assignments to the
\* vectors
PlaneStep_KeepsVectors(s, p_dt) ==
    Only({ [s EXCEPT !.cp_dRS = PredictEllipse(s, a, KeplerLoop(s.cp_dEC, a.M, a.M, 0)).RS] :
           a \in {PredictAnomaly(s, p_dt)} })

\* predict() from its first line to "c_vecV[1] = l_dB * l_dC_EA / l_dDNOM *
\* cp_dN0": cp_dRS and the components 0 and 1 of c_vecS and c_vecV are
\* assigned, the latter with coordinates in the plane of the ellipse
PlaneStep(s, p_dt) ==
    Only({ Only({ [s EXCEPT !.cp_dRS = e.RS,
                            !.c_vecS = Vec3(e.Sx, e.Sy, s.c_vecS[3]),
                            !.c_vecV = Vec3(e.Vx, e.Vy, s.c_vecV[3])] :
                  e \in {PredictEllipse(s, a, KeplerLoop(s.cp_dEC, a.M, a.M, 0))} }) :
           a \in {PredictAnomaly(s, p_dt)} })

\* predict() from there to "c_vecVEL[2] = ...": the celestial vectors are
\* assigned, from the fields c_vecS and c_vecV (Sz = S[2] = 0, Vz = V[2] = 0)
CelestialStep(s, p_dt) ==
    Only({ [s EXCEPT !.c_vecSAT = Vec3(FAdd(FMul(s.c_vecS[1], c.CX[1]), FMul(s.c_vecS[2], c.CX[2])),
                                       FAdd(FMul(s.c_vecS[1], c.CY[1]), FMul(s.c_vecS[2], c.CY[2])),
                                       FAdd(FMul(s.c_vecS[1], c.CZ[1]), FMul(s.c_vecS[2], c.CZ[2]))),
                     !.c_vecVEL = Vec3(FAdd(FMul(s.c_vecV[1], c.CX[1]), FMul(s.c_vecV[2], c.CX[2])),
                                       FAdd(FMul(s.c_vecV[1], c.CY[1]), FMul(s.c_vecV[2], c.CY[2])),
                                       FAdd(FMul(s.c_vecV[1], c.CZ[1]), FMul(s.c_vecV[2], c.CZ[2])))] :
           c \in {PredictPlane(s, PredictAnomaly(s, p_dt))} })

\* predict() from there to its end: c_vecS and c_vecV are assigned again,
\* with the celestial vectors turned into geocentric coordinates
GeocentricStep(s, p_dt) ==
    Only({ Only({ [s EXCEPT !.c_vecS = Geocentric(s.c_vecSAT, Cos(FNeg(l_dGHAA)), Sin(FNeg(l_dGHAA))),
                            !.c_vecV = Geocentric(s.c_vecVEL, Cos(FNeg(l_dGHAA)), Sin(FNeg(l_dGHAA)))] :
                  \* GHA Aries at elapsed time T
                  l_dGHAA \in {FAdd(a.GHAE, FMul(g_scdWE, a.T))} }) :
           a \in {PredictAnomaly(s, p_dt)} })

\* the longest sequence of predict calls and reads explored
MaxStepCalls == 2
MaxReads == 2

\* no call is running: hist.pc is the place in predict(), hist.pre the object
\* before the call, hist.writes the assignments the call has made to a vector
NoWrites == [c_vecS |-> 0, c_vecV |-> 0, c_vecSAT |-> 0, c_vecVEL |-> 0]

InitSteps ==
    /\ \E e \in TLEs, junk \in JunkStates :
         /\ sat = P13Satellite(junk, e.name, e.l1, e.l2)
         /\ input = [name |-> e.name, junk |-> junk]
         /\ hist = [pc |-> "idle", pre |-> P13Satellite(junk, e.name, e.l1, e.l2),
                    p_dt |-> P13DateTime, writes |-> NoWrites, reads |-> 0]
    /\ call = [op |-> "new", args |-> <<>>]
    /\ out = NoSatOut
    /\ dt = P13DateTime
    /\ kep = NoKepler /\ sun = NoSun
    /\ ncalls = 0

R_plane ==
    /\ hist.pc = "idle"
    /\ ncalls < MaxStepCalls
    /\ \E p_dt \in PredictTimes :
         /\ PredictLocals(sat, p_dt).done
         /\ sat' = PlaneStep(sat, p_dt)
         /\ hist' = [hist EXCEPT !.pc = "plane", !.pre = sat, !.p_dt = p_dt,
                                 !.writes = [NoWrites EXCEPT !.c_vecS = 1, !.c_vecV = 1]]
         /\ call' = [op |-> "predict", args |-> <<p_dt>>]
    /\ UNCHANGED <<out, input, dt, kep, sun, ncalls>>

R_celestial ==
    /\ hist.pc = "plane"
    /\ sat' = CelestialStep(sat, hist.p_dt)
    /\ hist' = [hist EXCEPT !.pc = "celestial",
                            !.writes.c_vecSAT = @ + 1, !.writes.c_vecVEL = @ + 1]
    /\ UNCHANGED <<call, out, input, dt, kep, sun, ncalls>>

R_geocentric ==
    /\ hist.pc = "celestial"
    /\ sat' = GeocentricStep(sat, hist.p_dt)
    /\ hist' = [hist EXCEPT !.pc = "idle",
                            !.writes.c_vecS = @ + 1, !.writes.c_vecV = @ + 1]
    /\ ncalls' = ncalls + 1
    /\ UNCHANGED <<call, out, input, dt, kep, sun>>

\* a read of the four vectors from outside the call, as latlon() and elaz()
\* read c_vecS and c_vecV: out.pc is where predict() was
R_read ==
    /\ hist.reads < MaxReads
    /\ \E from \in (IF hist.pc = "idle" THEN {sat} ELSE {sat, hist.pre}) :
         out' = [op |-> "read", pc |-> hist.pc,
                 c_vecS |-> from.c_vecS, c_vecV |-> from.c_vecV,
                 c_vecSAT |-> from.c_vecSAT, c_vecVEL |-> from.c_vecVEL]
    /\ hist' = [hist EXCEPT !.reads = @ + 1]
    /\ UNCHANGED <<sat, call, input, dt, kep, sun, ncalls>>

NextSteps == R_plane \/ R_celestial \/ R_geocentric \/ R_read

SpecSteps == InitSteps /\ [][NextSteps]_vars

\* the vector <<x, y, old z>> that c_vecS holds between the two assignments
\* of a call: coordinates in the plane of the ellipse, the z of before
PlaneVectors(s, p_dt) ==
    Only({ Only({ [c_vecS |-> Vec3(e.Sx, e.Sy, s.c_vecS[3]),
                   c_vecV |-> Vec3(e.Vx, e.Vy, s.c_vecV[3])] :
                  e \in {PredictEllipse(s, a, KeplerLoop(s.cp_dEC, a.M, a.M, 0))} }) :
           a \in {PredictAnomaly(s, p_dt)} })

\* C30: predict() assigns c_vecS and c_vecV twice, first with coordinates in
\* the plane of the ellipse and at its end with geocentric ones, and
\* c_vecSAT and c_vecVEL once: during a call c_vecS and c_vecV hold the plane
\* coordinates, c_vecSAT and c_vecVEL hold the values of before or those of
\* after the call, and at the end of the call the object is as predict()
\* leaves it.
C30_TwoWritesOfGeocentric ==
    /\ hist.pc \in {"plane", "celestial"} =>
         /\ sat.c_vecS = PlaneVectors(hist.pre, hist.p_dt).c_vecS
         /\ sat.c_vecV = PlaneVectors(hist.pre, hist.p_dt).c_vecV
         /\ hist.writes.c_vecS = 1 /\ hist.writes.c_vecV = 1
    /\ hist.pc = "plane" =>
         /\ sat.c_vecSAT = hist.pre.c_vecSAT /\ sat.c_vecVEL = hist.pre.c_vecVEL
         /\ hist.writes.c_vecSAT = 0 /\ hist.writes.c_vecVEL = 0
    /\ hist.pc = "celestial" =>
         /\ sat.c_vecSAT = predict(hist.pre, hist.p_dt).c_vecSAT
         /\ sat.c_vecVEL = predict(hist.pre, hist.p_dt).c_vecVEL
    /\ (hist.pc = "idle" /\ call.op = "predict") =>
         /\ sat = predict(hist.pre, hist.p_dt)
         /\ hist.writes = [c_vecS |-> 2, c_vecV |-> 2, c_vecSAT |-> 1, c_vecVEL |-> 1]

\* a read during a call has found a c_vecS that is neither the one before
\* the call nor the one after it, while c_vecSAT was still the one before
C30_Witness ==
    /\ out.op = "read"
    /\ out.pc = "plane"
    /\ hist.pc = "plane"
    /\ hist.pre.c_vecS # <<0, 0, 0>>
    /\ out.c_vecS # hist.pre.c_vecS
    /\ out.c_vecS # predict(hist.pre, hist.p_dt).c_vecS
    /\ out.c_vecV # hist.pre.c_vecV
    /\ out.c_vecV # predict(hist.pre, hist.p_dt).c_vecV
    /\ out.c_vecSAT = hist.pre.c_vecSAT

(***************************************************************************)
(* Two threads, each with its own P13DateTime, P13Satellite and P13Sun,    *)
(* running the same sequence of calls; the timestamp they copy and the     *)
(* observer are shared and const.  The steps of the two threads interleave *)
(* in every order; predict() is taken in the three steps of its            *)
(* assignments, the other calls in one.                                    *)
(***************************************************************************)
Threads == {"A", "B"}

\* every member function works on all the objects of one thread as if it
\* worked on those of thread A
This_OneObject(i) == "A"

\* the objects a member function called by thread i works on: its own (the
\* fields are members, reached through this; none is static)
This(i) == i

\* the calls of a thread in order, predict() in its three steps
ThreadSteps ==
    <<"add", "predict", "predict", "predict", "latlon", "elaz", "footprint",
      "doppler", "P13Sun::predict", "P13Sun::latlon">>

\* the number of steps of a thread
LastStep == Len(ThreadSteps)

NoResults ==
    [ll |-> [lat |-> 0, lon |-> 0], el |-> 0, az |-> 0, points |-> <<>>,
     freq |-> 0, sunll |-> [lat |-> 0, lon |-> 0]]

\* step pc of a thread on the objects own = [dt, sat, sun, out], with the
\* shared timestamp and observer and the offset delta of the thread
StepOf(pc, own, shared, delta) ==
    CASE pc = 0 -> [own EXCEPT !.dt = add(shared.p_dt, delta)]
      [] pc = 1 -> [own EXCEPT !.sat = PlaneStep(own.sat, own.dt)]
      [] pc = 2 -> [own EXCEPT !.sat = CelestialStep(own.sat, own.dt)]
      [] pc = 3 -> [own EXCEPT !.sat = GeocentricStep(own.sat, own.dt)]
      [] pc = 4 -> [own EXCEPT !.out.ll = latlon(own.sat)]
      [] pc = 5 -> Only({ [own EXCEPT !.sat = r.sat, !.out.el = r.el, !.out.az = r.az] :
                          r \in {elaz(own.sat, shared.p_obs)} })
      [] pc = 6 -> [own EXCEPT !.out.points =
                       footprint(own.sat, FootPoints, MapMaxX, MapMaxY,
                                 own.out.ll.lat, own.out.ll.lon, 0)]
      [] pc = 7 -> [own EXCEPT !.out.freq = doppler(own.sat, 2400 * SC, FALSE)]
      [] pc = 8 -> [own EXCEPT !.sun = P13Sun_predict(own.sun, own.dt)]
      [] pc = 9 -> [own EXCEPT !.out.sunll = P13Sun_latlon(own.sun)]

\* the offsets the threads add to their copy of the timestamp, in ticks
ThreadDeltas == [A |-> 21600, B |-> -43200]

InitPair ==
    /\ \E eA \in TLEs, eB \in TLEs, p_dt \in PredictTimes :
         /\ sat = [A |-> P13Satellite(BlankSatellite, eA.name, eA.l1, eA.l2),
                   B |-> P13Satellite(BlankSatellite, eB.name, eB.l1, eB.l2)]
         /\ input = [p_dt |-> p_dt, p_obs |-> P13Observer("Munich", 48 * SC, 11 * SC, 500),
                     sat0 |-> [A |-> P13Satellite(BlankSatellite, eA.name, eA.l1, eA.l2),
                               B |-> P13Satellite(BlankSatellite, eB.name, eB.l1, eB.l2)]]
    /\ sun = [i \in Threads |-> P13Sun(NoSun)]
    /\ dt = [i \in Threads |-> P13DateTime]
    /\ out = [i \in Threads |-> NoResults]
    /\ hist = [i \in Threads |-> 0]
    /\ call = [op |-> "new", args |-> <<>>]
    /\ kep = NoKepler
    /\ ncalls = 0

\* the next step of one of the threads
Q_step ==
    \E i \in Threads :
        /\ hist[i] < LastStep
        /\ \E o \in {This(i)} :
             \E r \in {StepOf(hist[i], [dt |-> dt[o], sat |-> sat[o], sun |-> sun[o],
                                        out |-> out[o]], input, ThreadDeltas[i])} :
                 /\ dt' = [dt EXCEPT ![o] = r.dt]
                 /\ sat' = [sat EXCEPT ![o] = r.sat]
                 /\ sun' = [sun EXCEPT ![o] = r.sun]
                 /\ out' = [out EXCEPT ![o] = r.out]
        /\ hist' = [hist EXCEPT ![i] = @ + 1]
        /\ call' = [op |-> "step", args |-> <<i>>]
        /\ ncalls' = ncalls + 1
        /\ UNCHANGED <<input, kep>>

NextPair == Q_step

SpecPair == InitPair /\ [][NextPair]_vars

\* the calls of one thread run from beginning to end with nothing in between
SequentialRun(s0, p_dt, delta, p_obs) ==
    Only({ Only({ Only({
        [dt |-> t, sat |-> r.sat, sun |-> P13Sun_predict(P13Sun(NoSun), t),
         out |-> [ll |-> ll, el |-> r.el, az |-> r.az,
                  points |-> footprint(r.sat, FootPoints, MapMaxX, MapMaxY,
                                       ll.lat, ll.lon, 0),
                  freq |-> doppler(r.sat, 2400 * SC, FALSE),
                  sunll |-> P13Sun_latlon(P13Sun_predict(P13Sun(NoSun), t))]] :
        r \in {elaz(s1, p_obs)}, ll \in {latlon(s1)} }) :
        s1 \in {predict(s0, t)} }) :
        t \in {add(p_dt, delta)} })

\* C22: two threads on their own instances, in any interleaving of their
\* steps, end with the objects and the results that each sequence of calls
\* gives when it runs alone; a thread that has not started has untouched
\* objects.
C22_InterleavingIsSequential ==
    \A i \in Threads :
        /\ hist[i] = LastStep =>
             [dt |-> dt[i], sat |-> sat[i], sun |-> sun[i], out |-> out[i]]
               = SequentialRun(input.sat0[i], input.p_dt, ThreadDeltas[i], input.p_obs)
        /\ hist[i] = 0 =>
             /\ sat[i] = input.sat0[i] /\ sun[i] = P13Sun(NoSun)
             /\ dt[i] = P13DateTime /\ out[i] = NoResults

\* both threads have finished, thread A last, on different satellites with
\* different results
C22_Witness ==
    /\ hist["A"] = LastStep /\ hist["B"] = LastStep
    /\ call.args = <<"A">>
    /\ sat["A"].cp_lN # sat["B"].cp_lN
    /\ sat["A"].c_vecS # sat["B"].c_vecS
    /\ out["A"].points # out["B"].points

=============================================================================
